---- MODULE Spec2Model ----
(***************************************************************************)
(* Model of the arc-acreage crate (src/arc-acreage/src/fast.rs): the Area  *)
(* bookkeeping, Grid::loop_area, and the backtracking Generator that draws *)
(* closed loops of diagonal segments on the 7x7 grid.                      *)
(*                                                                         *)
(* The recursion of Generator::next_cell is made explicit: `frames` holds, *)
(* for every active non-top-level call, the local `moves` vector that is   *)
(* still to be iterated, and `trial` is the position of the first-placement*)
(* loops of the top-level call.  The `calls` counter of the Generator only *)
(* drives a progress println and is not part of the model.                 *)
(***************************************************************************)
EXTENDS Integers, Sequences, FiniteSets, TLC

VARIABLES gen, frames, trial, pc, input, output, slow

vars == <<gen, frames, trial, pc, input, output, slow>>

(***************************************************************************)
(* Program constants.                                                      *)
(***************************************************************************)
GridSize == 7

GridCells == GridSize * GridSize

U8 == 256

(***************************************************************************)
(* Bounds of the model: the inputs handed to Generator::new.               *)
(***************************************************************************)
MaxLength == 6

MaxLengthSmall == 4

MaxSlants == 2

MaxSmall == 4

MaxLengthSlow == 4

Empty == "Empty"
Forward == "Forward"
Backward == "Backward"

Cell == {Empty, Forward, Backward}

Idx == 0 .. (GridSize - 1)

Line == 0 .. GridSize

(***************************************************************************)
(* Area                                                                    *)
(***************************************************************************)
Area(u, h) == [units |-> u, half |-> h]

\* Mutant: only one half is taken off for each unit added.
simplify_half_once(a) ==
    LET u == a.half \div 2
    IN  [units |-> (a.units + u) % U8, half |-> a.half - u]

simplify(a) ==
    LET u == a.half \div 2
    IN  [units |-> (a.units + u) % U8, half |-> a.half - 2 * u]

\* Mutant: the comparison looks at the units only.
eq_units(a, b) == a.units = b.units

\* The derived PartialEq of Area: field by field.
eq(a, b) == a.units = b.units /\ a.half = b.half

\* Whether `self.units + u` of simplify exceeds the u8 range: a panic in a
\* build with overflow checks, a wrapped sum in a build without.
simplify_overflows(a) == a.units + a.half \div 2 >= U8

is_integer(a, n) ==
    LET simplified == simplify(a)
    IN  simplified.units = n /\ simplified.half = 0

(***************************************************************************)
(* Grid                                                                    *)
(***************************************************************************)
EmptyGrid == [r \in Idx |-> [c \in Idx |-> Empty]]

\* Mutant: only the forward slants toggle the flag.
RECURSIVE outside_before_forward(_, _)
outside_before_forward(row, c) ==
    IF c = 0
    THEN TRUE
    ELSE IF row[c - 1] = Forward
         THEN ~outside_before_forward(row, c - 1)
         ELSE outside_before_forward(row, c - 1)

\* The `outside` flag of loop_area before the cell c of a row is inspected:
\* TRUE at the start of the row, toggled by every slant cell passed.
RECURSIVE outside_before(_, _)
outside_before(row, c) ==
    IF c = 0
    THEN TRUE
    ELSE IF row[c - 1] = Empty
         THEN outside_before(row, c - 1)
         ELSE ~outside_before(row, c - 1)

\* Mutant: only the forward slants count as half units.
scan_forward_halves(data) ==
    LET cells == Idx \X Idx
        slants == { rc \in cells : data[rc[1]][rc[2]] # Empty }
        outer == { rc \in cells : /\ data[rc[1]][rc[2]] = Empty
                                  /\ outside_before(data[rc[1]], rc[2]) }
        inner == { rc \in cells : /\ data[rc[1]][rc[2]] = Empty
                                  /\ ~outside_before(data[rc[1]], rc[2]) }
    IN  [n |-> Cardinality(slants), k |-> Cardinality(outer),
         j |-> Cardinality(inner),
         h |-> Cardinality({ rc \in slants : data[rc[1]][rc[2]] = Forward })]

\* Mutant: an Empty cell is counted only while `outside` holds.
scan_outside_only(data) ==
    LET cells == Idx \X Idx
        slants == { rc \in cells : data[rc[1]][rc[2]] # Empty }
        outer == { rc \in cells : /\ data[rc[1]][rc[2]] = Empty
                                  /\ outside_before(data[rc[1]], rc[2]) }
    IN  [n |-> Cardinality(slants), k |-> Cardinality(outer),
         j |-> 0, h |-> Cardinality(slants)]

\* The counters of loop_area after the two loops: n slanted segments, k
\* outside full cells, j inside full cells, h half units.
scan(data) ==
    LET cells == Idx \X Idx
        slants == { rc \in cells : data[rc[1]][rc[2]] # Empty }
        outer == { rc \in cells : /\ data[rc[1]][rc[2]] = Empty
                                  /\ outside_before(data[rc[1]], rc[2]) }
        inner == { rc \in cells : /\ data[rc[1]][rc[2]] = Empty
                                  /\ ~outside_before(data[rc[1]], rc[2]) }
    IN  [n |-> Cardinality(slants), k |-> Cardinality(outer),
         j |-> Cardinality(inner), h |-> Cardinality(slants)]

\* Mutant: the result is not simplified.
loop_area_raw(data) ==
    LET cnt == scan(data)
    IN  IF cnt.n + cnt.k + cnt.j # 49
        THEN [ok |-> FALSE, err |-> "LoopNotClosed"]
        ELSE [ok |-> TRUE, area |-> Area(cnt.j, cnt.h)]

loop_area(data) ==
    LET cnt == scan(data)
    IN  IF cnt.n + cnt.k + cnt.j # 49
        THEN [ok |-> FALSE, err |-> "LoopNotClosed"]
        ELSE [ok |-> TRUE, area |-> simplify(Area(cnt.j, cnt.h))]

(***************************************************************************)
(* central_binom: the lookup table, each entry split as hi * 10^8 + lo.    *)
(***************************************************************************)
Limb == 10000 * 10000

CentralBinomTable ==
    << <<0, 1>>, <<0, 2>>, <<0, 6>>, <<0, 20>>, <<0, 70>>, <<0, 252>>,
       <<0, 924>>, <<0, 3432>>, <<0, 12870>>, <<0, 48620>>, <<0, 184756>>,
       <<0, 705432>>, <<0, 2704156>>, <<0, 10400600>>, <<0, 40116600>>,
       <<1, 55117520>>, <<6, 1080390>>, <<23, 33606220>>, <<90, 75135300>>,
       <<353, 45263800>>, <<1378, 46528820>>, <<5382, 57874440>>,
       <<21040, 98963720>>, <<82334, 30727600>>, <<322476, 3683100>>,
       <<1264106, 6437752>>, <<4959185, 32948104>> >>

central_binom_defined(n) == n <= 26

\* Mutant: two digits of the entry for 12 are exchanged.
central_binom_limbs_typo(n) ==
    IF n = 12 THEN <<0, 2704165>> ELSE CentralBinomTable[n + 1]

\* The value the match arm of n gives, as the pair <<hi, lo>>.
central_binom_limbs(n) == CentralBinomTable[n + 1]

central_binom(n) == central_binom_limbs(n)[1] * Limb + central_binom_limbs(n)[2]

(***************************************************************************)
(* Generator                                                               *)
(***************************************************************************)
new(target, max_inner_cells, max_length) ==
    [ target          |-> simplify(target),
      max_inner_cells |-> max_inner_cells,
      max_length      |-> max_length,
      grid            |-> EmptyGrid,
      placed          |-> [r \in Idx |-> [c \in Idx |-> FALSE]],
      placed_cnt      |-> 0,
      moves           |-> << >>,
      start           |-> <<0, 0>>,
      head            |-> <<0, 0>>,
      valid_grids     |-> << >>,
      valid_cnt       |-> 0,
      inner_cells     |-> 0 ]

\* Mutant: the last row and column count as inner.
IsInner_upto_six(row, col) == row > 0 /\ row <= 6 /\ col > 0 /\ col <= 6

IsInner(row, col) == row > 0 /\ row < 6 /\ col > 0 /\ col < 6

\* place panics (assert_eq!(*placed, false)) when this does not hold.
place_ok(g, row, col) == ~g.placed[row][col]

\* Mutant: the cell is not flagged as placed.
place_forget_flag(g, row, col, c, headr, headc) ==
    [g EXCEPT !.grid[row][col] = c,
              !.placed_cnt = @ + 1,
              !.moves = Append(@, <<<<row, col>>, g.head>>),
              !.head = <<headr, headc>>,
              !.inner_cells = IF IsInner(row, col) THEN @ + 1 ELSE @]

place(g, row, col, c, headr, headc) ==
    [g EXCEPT !.grid[row][col] = c,
              !.placed[row][col] = TRUE,
              !.placed_cnt = @ + 1,
              !.moves = Append(@, <<<<row, col>>, g.head>>),
              !.head = <<headr, headc>>,
              !.inner_cells = IF IsInner(row, col) THEN @ + 1 ELSE @]

\* unplace panics (expect on the pop, assert_eq!(*placed, true)) otherwise.
unplace_ok(g) ==
    /\ Len(g.moves) > 0
    /\ LET m == g.moves[Len(g.moves)] IN g.placed[m[1][1]][m[1][2]]

\* Mutant: the cell keeps its segment.
unplace_keep_cell(g) ==
    LET m == g.moves[Len(g.moves)]
        row == m[1][1]
        col == m[1][2]
        old_head == m[2]
    IN  [g EXCEPT !.moves = SubSeq(@, 1, Len(@) - 1),
                  !.placed[row][col] = FALSE,
                  !.placed_cnt = @ - 1,
                  !.head = old_head,
                  !.inner_cells = IF IsInner(row, col) THEN @ - 1 ELSE @]

\* Mutant: the head is not restored.
unplace_keep_head(g) ==
    LET m == g.moves[Len(g.moves)]
        row == m[1][1]
        col == m[1][2]
    IN  [g EXCEPT !.moves = SubSeq(@, 1, Len(@) - 1),
                  !.grid[row][col] = Empty,
                  !.placed[row][col] = FALSE,
                  !.placed_cnt = @ - 1,
                  !.inner_cells = IF IsInner(row, col) THEN @ - 1 ELSE @]

unplace(g) ==
    LET m == g.moves[Len(g.moves)]
        row == m[1][1]
        col == m[1][2]
        old_head == m[2]
    IN  [g EXCEPT !.moves = SubSeq(@, 1, Len(@) - 1),
                  !.grid[row][col] = Empty,
                  !.placed[row][col] = FALSE,
                  !.placed_cnt = @ - 1,
                  !.head = old_head,
                  !.inner_cells = IF IsInner(row, col) THEN @ - 1 ELSE @]

(***************************************************************************)
(* next_cell, first-placement branch (empty move log).  `trial` counts     *)
(* the iterations of the three nested loops: r, c, and the orientation.    *)
(***************************************************************************)
Trials == 2 * GridCells

trial_r(t) == t \div (2 * GridSize)

trial_c(t) == (t \div 2) % GridSize

trial_cell(t) == IF t % 2 = 0 THEN Forward ELSE Backward

\* Mutant: no opening segment is passed over.
IsCorner_never(v) == FALSE

IsCorner(v) == v = <<0, 0>> \/ v = <<0, 7>> \/ v = <<7, 0>> \/ v = <<7, 7>>

\* The start vertex and the head of an opening segment.
\* Mutant: the curve starts at the top-left vertex of the opening cell.
first_start_top_left(r, c, cell) == <<r, c>>

first_start(r, c, cell) == IF cell = Forward THEN <<r + 1, c>> ELSE <<r, c>>

first_head(r, c, cell) == IF cell = Forward THEN <<r, c + 1>> ELSE <<r + 1, c + 1>>

\* Mutant: the start cell is not kept marked.
mark_first_forget(g, r, c) == g

\* After the orientation loop of a cell: keep the cell marked as placed.
mark_first(g, r, c) == [g EXCEPT !.placed[r][c] = TRUE]

(***************************************************************************)
(* next_cell, extension branch: the local `moves` vector built from the    *)
(* four cells around the head, in the order dr = -1, 1 and dc = -1, 1.     *)
(***************************************************************************)
Deltas == << <<-1, -1>>, <<-1, 1>>, <<1, -1>>, <<1, 1>> >>

\* Mutant: the candidate gets the diagonal that does not pass through the head.
candidate_other_diagonal(g, d) ==
    LET dr == d[1]
        dc == d[2]
        nr == g.head[1] + dr
        nc == g.head[2] + dc
        ncellr == IF dr = 1 THEN nr - 1 ELSE nr
        ncellc == IF dc = 1 THEN nc - 1 ELSE nc
    IN  IF nr < 0 \/ nr > 7 \/ nc < 0 \/ nc > 7
        THEN << >>
        ELSE IF g.placed[ncellr][ncellc]
             THEN << >>
             ELSE << <<ncellr, ncellc, IF dr = dc THEN Forward ELSE Backward, nr, nc>> >>

\* Mutant: cells that are flagged as placed are candidates too.
candidate_ignore_placed(g, d) ==
    LET dr == d[1]
        dc == d[2]
        nr == g.head[1] + dr
        nc == g.head[2] + dc
        ncellr == IF dr = 1 THEN nr - 1 ELSE nr
        ncellc == IF dc = 1 THEN nc - 1 ELSE nc
    IN  IF nr < 0 \/ nr > 7 \/ nc < 0 \/ nc > 7
        THEN << >>
        ELSE << <<ncellr, ncellc, IF dr = dc THEN Backward ELSE Forward, nr, nc>> >>

candidate(g, d) ==
    LET dr == d[1]
        dc == d[2]
        nr == g.head[1] + dr
        nc == g.head[2] + dc
        ncellr == IF dr = 1 THEN nr - 1 ELSE nr
        ncellc == IF dc = 1 THEN nc - 1 ELSE nc
    IN  IF nr < 0 \/ nr > 7 \/ nc < 0 \/ nc > 7
        THEN << >>
        ELSE IF g.placed[ncellr][ncellc]
             THEN << >>
             ELSE << <<ncellr, ncellc, IF dr = dc THEN Backward ELSE Forward, nr, nc>> >>

candidates(g) ==
    candidate(g, Deltas[1]) \o candidate(g, Deltas[2])
        \o candidate(g, Deltas[3]) \o candidate(g, Deltas[4])

\* assert_ne!(p_cell, Cell::Empty) on the last placed cell.
last_cell_ok(g) ==
    LET m == g.moves[Len(g.moves)] IN g.grid[m[1][1]][m[1][2]] # Empty

\* The counter c of the self-intersection check: the non-empty cells among
\* the four around the vertex (nr, nc).
intersections(g, nr, nc) ==
    (IF nr > 0 /\ nc > 0 /\ g.grid[nr - 1][nc - 1] # Empty THEN 1 ELSE 0)
  + (IF nr > 0 /\ nc < 7 /\ g.grid[nr - 1][nc] # Empty THEN 1 ELSE 0)
  + (IF nr < 7 /\ nc > 0 /\ g.grid[nr][nc - 1] # Empty THEN 1 ELSE 0)
  + (IF nr < 7 /\ nc < 7 /\ g.grid[nr][nc] # Empty THEN 1 ELSE 0)

\* Mutant: the candidate is compared with the head, not with the start.
closes_head(g, mv) == mv[4] = g.head[1] /\ mv[5] = g.head[2]

\* Mutant: a candidate closes when it comes back to the row of the start.
closes_row(g, mv) == mv[4] = g.start[1]

closes(g, mv) == mv[4] = g.start[1] /\ mv[5] = g.start[2]

\* Mutant: the multiplier is taken at the length, not at half the length.
harvest_full_length(g) ==
    [g EXCEPT !.valid_grids = Append(@, g.grid),
              !.valid_cnt = @ + central_binom(g.placed_cnt)]

\* The harvest of a closure whose area matched (the closing segment placed).
\* Mutant: the grid is pushed after the closing segment is taken back.
harvest_after_unplace(g) ==
    [g EXCEPT !.valid_grids = Append(@, unplace(g).grid),
              !.valid_cnt = @ + central_binom(g.placed_cnt \div 2)]

harvest(g) ==
    [g EXCEPT !.valid_grids = Append(@, g.grid),
              !.valid_cnt = @ + central_binom(g.placed_cnt \div 2)]

\* The closure test of a candidate that leads back to `start`: the closing
\* segment is placed, the assertions are evaluated, and the area is taken.
closure_placed(g, mv) == place(g, mv[1], mv[2], mv[3], mv[4], mv[5])

\* assert_eq!(c, 1), the assert of place, the assert on the parity of placed_cnt,
\* expect("we formed a loop") and the domain of central_binom.
closure_ok(g, mv) ==
    /\ intersections(g, mv[4], mv[5]) = 1
    /\ place_ok(g, mv[1], mv[2])
    /\ closure_placed(g, mv).placed_cnt % 2 = 0
    /\ loop_area(closure_placed(g, mv).grid).ok

closure_area(g, mv) == simplify(loop_area(closure_placed(g, mv).grid).area)

\* Mutant: the comparison with the target looks at the whole units only.
closure_matches_units(g, mv) == closure_area(g, mv).units = g.target.units

closure_matches(g, mv) == closure_area(g, mv) = g.target

\* The pruning test before a candidate is placed as an extension.
too_long(g) == g.placed_cnt + 1 > g.max_length

\* Whether next_cell is entered after an extension has been placed.
recurses(g) == g.inner_cells <= g.max_inner_cells

(***************************************************************************)
(* The state machine.                                                      *)
(***************************************************************************)
Frame(ms) == [moves |-> ms, stage |-> "check"]

Targets == { Area(u, h) : u \in {0, 2, 4}, h \in {0, 1, 4} }

InnerBounds == {0, 1, GridCells}

None == "none"

\* The slow Generator (src/arc-acreage/src/slow.rs) before it is constructed.
SlowIdle == [pc |-> "idle"]

\* During a search `output` is a record of the first-placement loops: how
\* many opening segments have been placed, and which <<r, c, cell>> the loops
\* went past with `continue`.
NoOpenings == [opened |-> 0, skipped |-> {}]

Init ==
    /\ \E t \in Targets, mi \in InnerBounds, ml \in 0 .. MaxLength :
           gen = new(t, mi, ml)
    /\ frames = << >>
    /\ trial = 0
    /\ pc = "run"
    /\ input = None
    /\ output = NoOpenings
    /\ slow = SlowIdle

AtTop == pc = "run" /\ frames = << >> /\ trial < Trials

InCall == pc = "run" /\ frames # << >>

cur == frames[Len(frames)]

mv0 == Head(cur.moves)

\* The end of one iteration of the orientation loop at the top level; after
\* the second orientation the cell stays marked and the grid must be empty.
EndTrial(g) ==
    LET r == trial_r(trial)
        c == trial_c(trial)
    IN  IF trial_cell(trial) = Backward
        THEN /\ gen' = mark_first(g, r, c)
             /\ pc' = IF g.grid = EmptyGrid THEN "run" ELSE "panic: grid not empty"
             /\ trial' = trial + 1
        ELSE /\ gen' = g
             /\ pc' = "run"
             /\ trial' = trial + 1

\* The iteration of a `for ... in moves` loop ends: on to the next candidate.
NextCandidate(fs) ==
    [fs EXCEPT ![Len(fs)] = Frame(Tail(fs[Len(fs)].moves))]

\* `continue` on an opening segment whose start vertex is a corner.
SkipCorner ==
    /\ UNCHANGED <<input, slow>>
    /\ AtTop
    /\ IsCorner(first_start(trial_r(trial), trial_c(trial), trial_cell(trial)))
    /\ output' = [output EXCEPT !.skipped =
                    @ \cup {<<trial_r(trial), trial_c(trial), trial_cell(trial)>>}]
    /\ EndTrial(gen)
    /\ UNCHANGED frames

\* An opening segment is placed and next_cell is called on it.
FirstPlacement ==
    /\ UNCHANGED <<input, slow>>
    /\ AtTop
    /\ output' = [output EXCEPT !.opened = @ + 1]
    /\ LET r == trial_r(trial)
           c == trial_c(trial)
           cell == trial_cell(trial)
           h == first_head(r, c, cell)
           g1 == [gen EXCEPT !.head = h, !.start = first_start(r, c, cell)]
           g2 == place(g1, r, c, cell, h[1], h[2])
       IN  /\ ~IsCorner(first_start(r, c, cell))
           /\ IF place_ok(g1, r, c) /\ last_cell_ok(g2)
              THEN /\ gen' = g2
                   /\ frames' = << Frame(candidates(g2)) >>
                   /\ pc' = "run"
              ELSE /\ gen' = g1
                   /\ frames' = frames
                   /\ pc' = "panic: place"
    /\ UNCHANGED trial

Checking == InCall /\ cur.moves # << >> /\ cur.stage = "check"

\* The candidate would make a vertex with two or more segments already on it.
Reject ==
    /\ UNCHANGED <<input, output, slow>>
    /\ Checking
    /\ intersections(gen, mv0[4], mv0[5]) >= 2
    /\ frames' = NextCandidate(frames)
    /\ UNCHANGED <<gen, trial, pc>>

\* The candidate leads back to `start`: place it, take the area, harvest the
\* grid when the area is the target, and unplace it.
Closure ==
    /\ UNCHANGED <<input, output, slow>>
    /\ Checking
    /\ intersections(gen, mv0[4], mv0[5]) < 2
    /\ closes(gen, mv0)
    /\ IF ~closure_ok(gen, mv0)
       THEN pc' = "panic: closure" /\ UNCHANGED <<gen, frames>>
       ELSE IF closure_matches(gen, mv0)
            THEN /\ IF central_binom_defined(closure_placed(gen, mv0).placed_cnt \div 2)
                    THEN /\ gen' = unplace(harvest(closure_placed(gen, mv0)))
                         /\ pc' = "run"
                    ELSE /\ gen' = closure_placed(gen, mv0)
                         /\ pc' = "panic: central_binom"
                 /\ frames' = [frames EXCEPT ![Len(frames)].stage = "extend"]
            ELSE /\ gen' = unplace(closure_placed(gen, mv0))
                 /\ frames' = NextCandidate(frames)
                 /\ pc' = "run"
    /\ UNCHANGED trial

\* The candidate is considered as an extension of the curve.
Extending ==
    /\ InCall
    /\ cur.moves # << >>
    /\ \/ cur.stage = "extend"
       \/ /\ cur.stage = "check"
          /\ intersections(gen, mv0[4], mv0[5]) < 2
          /\ ~closes(gen, mv0)

PruneLength ==
    /\ UNCHANGED <<input, output, slow>>
    /\ Extending
    /\ too_long(gen)
    /\ frames' = NextCandidate(frames)
    /\ UNCHANGED <<gen, trial, pc>>

\* The candidate is placed and next_cell is called on the longer curve.
Extend ==
    /\ UNCHANGED <<input, output, slow>>
    /\ Extending
    /\ ~too_long(gen)
    /\ LET g2 == place(gen, mv0[1], mv0[2], mv0[3], mv0[4], mv0[5])
       IN  IF ~place_ok(gen, mv0[1], mv0[2])
           THEN pc' = "panic: place" /\ UNCHANGED <<gen, frames>>
           ELSE /\ recurses(g2)
                /\ gen' = g2
                /\ IF last_cell_ok(g2)
                   THEN pc' = "run" /\ frames' = Append(frames, Frame(candidates(g2)))
                   ELSE pc' = "panic: last cell empty" /\ frames' = frames
    /\ UNCHANGED trial

\* The candidate is placed, has too many inner cells, and is unplaced.
ExtendNoRecurse ==
    /\ UNCHANGED <<input, output, slow>>
    /\ Extending
    /\ ~too_long(gen)
    /\ place_ok(gen, mv0[1], mv0[2])
    /\ LET g2 == place(gen, mv0[1], mv0[2], mv0[3], mv0[4], mv0[5])
       IN  /\ ~recurses(g2)
           /\ gen' = unplace(g2)
    /\ frames' = NextCandidate(frames)
    /\ UNCHANGED <<trial, pc>>

\* A call of next_cell has iterated all its moves: it returns and its caller
\* unplaces the segment the call was made on.
Return ==
    /\ UNCHANGED <<input, output, slow>>
    /\ InCall
    /\ cur.moves = << >>
    /\ IF ~unplace_ok(gen)
       THEN pc' = "panic: unplace" /\ UNCHANGED <<gen, frames, trial>>
       ELSE IF Len(frames) = 1
            THEN /\ frames' = << >>
                 /\ EndTrial(unplace(gen))
            ELSE /\ frames' = NextCandidate(SubSeq(frames, 1, Len(frames) - 1))
                 /\ gen' = unplace(gen)
                 /\ UNCHANGED <<trial, pc>>

\* generate returns (valid_cnt, valid_grids).
Finish ==
    /\ UNCHANGED <<input, output, slow>>
    /\ pc = "run"
    /\ frames = << >>
    /\ trial = Trials
    /\ pc' = "done"
    /\ UNCHANGED <<gen, frames, trial>>

Next ==
    \/ SkipCorner
    \/ FirstPlacement
    \/ Reject
    \/ Closure
    \/ PruneLength
    \/ Extend
    \/ ExtendNoRecurse
    \/ Return
    \/ Finish

Spec == Init /\ [][Next]_vars

(***************************************************************************)
(* Properties of the search.                                               *)
(***************************************************************************)
Segments(data) == Cardinality({ rc \in Idx \X Idx : data[rc[1]][rc[2]] # Empty })

\* C2: every grid that generate returns in valid_grids has a loop_area whose
\* simplified value is the simplified target.
C2_ValidGridsHaveTargetArea ==
    pc = "done" =>
        \A i \in 1 .. Len(gen.valid_grids) :
            /\ loop_area(gen.valid_grids[i]).ok
            /\ simplify(loop_area(gen.valid_grids[i]).area) = simplify(gen.target)

\* A grid has been harvested for a target given in unsimplified form.
C2_Witness ==
    /\ pc = "done"
    /\ Len(gen.valid_grids) > 0
    /\ gen.target = Area(4, 0)

\* C4: valid_grids never holds the same layout twice.
C4_NoDuplicateGrids ==
    \A i, j \in 1 .. Len(gen.valid_grids) :
        i < j => gen.valid_grids[i] # gen.valid_grids[j]

\* The search is over and has harvested several grids.
C4_Witness ==
    /\ pc = "done"
    /\ Len(gen.valid_grids) >= 36

\* C6: between the trials of the first-placement loops and when the search
\* has returned, the grid is all Empty, the move log is empty and both
\* counters are 0; the assert_eq on the grid never fails.
C6_EmptyAfterTrials ==
    /\ pc # "panic: grid not empty"
    /\ (frames = << >> /\ pc \in {"run", "done"}) =>
           /\ gen.grid = EmptyGrid
           /\ gen.moves = << >>
           /\ gen.placed_cnt = 0
           /\ gen.inner_cells = 0

\* The whole search has returned after harvesting at least one loop.
C6_Witness ==
    /\ pc = "done"
    /\ trial = Trials
    /\ Len(gen.valid_grids) > 0
    /\ gen.placed[6][6]

(***************************************************************************)
(* A short search, for the properties that quantify over all the calls of  *)
(* place that could be made in a state.                                    *)
(***************************************************************************)
InitSmall ==
    /\ \E mi \in {0, GridCells} : gen = new(Area(2, 0), mi, MaxLengthSmall)
    /\ frames = << >>
    /\ trial = 0
    /\ pc = "run"
    /\ input = None
    /\ output = NoOpenings
    /\ slow = SlowIdle

SpecSmall == InitSmall /\ [][Next]_vars

\* C5: in every state of the search, place on any unplaced cell, with either
\* segment and any vertex of the cell as the new head, followed by unplace
\* gives the state back: grid, placed, placed_cnt, moves, head and
\* inner_cells (and all other fields).
C5_PlaceUnplaceInverse ==
    \A row \in Idx, col \in Idx :
        place_ok(gen, row, col) =>
            \A c \in {Forward, Backward}, headr \in {row, row + 1}, headc \in {col, col + 1} :
                /\ unplace_ok(place(gen, row, col, c, headr, headc))
                /\ unplace(place(gen, row, col, c, headr, headc)) = gen

\* A state in the middle of the search: segments placed, inner ones among
\* them, and cells left to place on.
C5_Witness ==
    /\ gen.placed_cnt >= 3
    /\ gen.inner_cells >= 1
    /\ gen.head # gen.start
    /\ \E row \in Idx, col \in Idx : IsInner(row, col) /\ place_ok(gen, row, col)

(***************************************************************************)
(* Grid::loop_area as a function of the grid: `input` is a grid, drawn one *)
(* segment at a time from the empty grid or taken from the shapes of the   *)
(* test example_shapes_have_correct_area, and `output` is the result.      *)
(***************************************************************************)
FromRows(rows) == [r \in Idx |-> [c \in Idx |-> rows[r + 1][c + 1]]]

grid1 ==
    LET E == Empty  F == Forward  B == Backward
    IN  FromRows(<< <<E, E, E, E, E, E, E>>,
                    <<E, F, B, E, E, E, E>>,
                    <<E, B, F, E, E, E, E>>,
                    <<E, E, E, E, E, E, E>>,
                    <<E, E, E, E, E, E, E>>,
                    <<E, E, E, E, E, E, E>>,
                    <<E, E, E, E, E, E, E>> >>)

grid2 ==
    LET E == Empty  F == Forward  B == Backward
    IN  FromRows(<< <<E, E, E, E, E, E, E>>,
                    <<E, E, E, E, E, E, E>>,
                    <<E, E, E, E, E, E, E>>,
                    <<E, E, E, E, E, E, E>>,
                    <<E, E, F, B, F, B, E>>,
                    <<E, E, B, E, E, F, E>>,
                    <<E, E, E, B, F, E, E>> >>)

grid3 ==
    LET E == Empty  F == Forward  B == Backward
    IN  FromRows(<< <<E, E, F, B, F, B, E>>,
                    <<E, F, E, E, E, E, B>>,
                    <<F, E, E, E, E, E, F>>,
                    <<B, E, E, E, E, E, B>>,
                    <<F, E, E, E, E, E, F>>,
                    <<B, E, E, E, E, F, E>>,
                    <<E, B, F, B, F, E, E>> >>)

\* The minimal closed loop: four slants in the 2x2 block at (r, c).
MinimalLoop(r, c) ==
    [EmptyGrid EXCEPT ![r][c] = Forward, ![r][c + 1] = Backward,
                      ![r + 1][c] = Backward, ![r + 1][c + 1] = Forward]

MinimalLoops == { MinimalLoop(r, c) : r \in 0 .. (GridSize - 2), c \in 0 .. (GridSize - 2) }

InitGrid ==
    /\ gen = new(Area(0, 0), 0, 0)
    /\ frames = << >>
    /\ trial = 0
    /\ pc = "grid"
    /\ input \in {EmptyGrid, grid2, grid3} \cup MinimalLoops
    /\ output = None
    /\ slow = SlowIdle

\* Grid::new on a grid with one more segment.
Draw ==
    /\ pc = "grid"
    /\ Segments(input) < MaxSlants
    /\ \E r \in Idx, c \in Idx, cell \in {Forward, Backward} :
           /\ input[r][c] = Empty
           /\ input' = [input EXCEPT ![r][c] = cell]
    /\ UNCHANGED <<gen, frames, trial, pc, output, slow>>

CallLoopArea ==
    /\ pc = "grid"
    /\ output' = loop_area(input)
    /\ pc' = "area"
    /\ UNCHANGED <<gen, frames, trial, input, slow>>

NextGrid == Draw \/ CallLoopArea

SpecGrid == InitGrid /\ [][NextGrid]_vars

\* The number of slant cells of a row to the left of column c.
SlantsLeft(row, c) == Cardinality({ c2 \in 0 .. (c - 1) : row[c2] # Empty })

\* The three counts as the description of loop_area gives them: an Empty
\* cell is outside when an even number of slants lies to its left in its row.
RefSegments(data) == Segments(data)

RefOutside(data) ==
    Cardinality({ rc \in Idx \X Idx : /\ data[rc[1]][rc[2]] = Empty
                                      /\ SlantsLeft(data[rc[1]], rc[2]) % 2 = 0 })

RefInside(data) ==
    Cardinality({ rc \in Idx \X Idx : /\ data[rc[1]][rc[2]] = Empty
                                      /\ SlantsLeft(data[rc[1]], rc[2]) % 2 = 1 })

\* C7: loop_area returns Err(LoopNotClosed) exactly when segments + outside
\* + inside is not 49, and otherwise Ok of the simplified area with `inside`
\* units and `segments` halves, the counts being those of the row scan.
C7_LoopAreaScan ==
    pc = "area" =>
        /\ output.ok = (RefSegments(input) + RefOutside(input) + RefInside(input) = 49)
        /\ output.ok =>
               output.area = simplify(Area(RefInside(input), RefSegments(input)))

\* loop_area has run on a grid with two slants in one row and an Empty cell
\* between them.
C7_Witness ==
    /\ pc = "area"
    /\ Segments(input) = 2
    /\ \E r \in Idx : input[r][1] # Empty /\ input[r][2] = Empty /\ input[r][3] # Empty

IsMinimalLoop(data) == data \in MinimalLoops

\* C9 as stated: on a minimal closed loop in a 2x2 block loop_area counts
\* Area{units: 0, half: 2} and returns Area{units: 1, half: 0}.
C9_AsStated ==
    (pc = "area" /\ IsMinimalLoop(input)) =>
        /\ Area(scan(input).j, scan(input).h) = Area(0, 2)
        /\ output = [ok |-> TRUE, area |-> Area(1, 0)]

\* C9 amended: on a minimal closed loop in a 2x2 block (four slants, no
\* Empty cell enclosed) loop_area counts Area{units: 0, half: 4} and returns
\* Area{units: 2, half: 0}.
C9_MinimalLoopArea ==
    (pc = "area" /\ IsMinimalLoop(input)) =>
        /\ Area(scan(input).j, scan(input).h) = Area(0, 4)
        /\ output = [ok |-> TRUE, area |-> Area(2, 0)]

\* loop_area has run on the minimal loop of the test (grid1).
C9_Witness ==
    /\ pc = "area"
    /\ input = grid1

(***************************************************************************)
(* A flood-fill reference for the enclosed area.  Every cell is two halves,*)
(* "U" touching its top edge and "D" touching its bottom edge; a slant     *)
(* separates them, an Empty cell joins them.  The flood starts from the    *)
(* halves on the rim of the grid and crosses the edges between cells.      *)
(***************************************************************************)
Touches(cell, hf, edge) ==
    CASE cell = Empty -> TRUE
      [] cell = Forward -> IF hf = "U" THEN edge \in {"top", "left"}
                                       ELSE edge \in {"bottom", "right"}
      [] cell = Backward -> IF hf = "U" THEN edge \in {"top", "right"}
                                        ELSE edge \in {"bottom", "left"}

Across(edge) ==
    CASE edge = "top" -> <<-1, 0, "bottom">>
      [] edge = "bottom" -> <<1, 0, "top">>
      [] edge = "left" -> <<0, -1, "right">>
      [] edge = "right" -> <<0, 1, "left">>

Edges == {"top", "bottom", "left", "right"}

Halves == Idx \X Idx \X {"U", "D"}

Neighbours(data, nd) ==
    { m \in Halves :
        \/ /\ m[1] = nd[1] /\ m[2] = nd[2]
           /\ data[nd[1]][nd[2]] = Empty
        \/ \E e \in Edges :
              /\ Touches(data[nd[1]][nd[2]], nd[3], e)
              /\ m[1] = nd[1] + Across(e)[1]
              /\ m[2] = nd[2] + Across(e)[2]
              /\ Touches(data[m[1]][m[2]], m[3], Across(e)[3]) }

OnRim(data, nd) ==
    \/ nd[1] = 0 /\ Touches(data[nd[1]][nd[2]], nd[3], "top")
    \/ nd[1] = GridSize - 1 /\ Touches(data[nd[1]][nd[2]], nd[3], "bottom")
    \/ nd[2] = 0 /\ Touches(data[nd[1]][nd[2]], nd[3], "left")
    \/ nd[2] = GridSize - 1 /\ Touches(data[nd[1]][nd[2]], nd[3], "right")

RECURSIVE Flood(_, _, _)
Flood(data, reached, frontier) ==
    IF frontier = {}
    THEN reached
    ELSE LET nxt == (UNION { Neighbours(data, nd) : nd \in frontier }) \ reached
         IN  Flood(data, reached \cup nxt, nxt)

OutsideHalves(data) ==
    LET rim == { nd \in Halves : OnRim(data, nd) } IN Flood(data, rim, rim)

\* The enclosed area by flood fill: the Empty cells the flood does not reach
\* count one unit each, and every segment counts a half.
FloodArea(data) ==
    LET out == OutsideHalves(data)
        enclosed == { rc \in Idx \X Idx : /\ data[rc[1]][rc[2]] = Empty
                                          /\ <<rc[1], rc[2], "U">> \notin out }
    IN  simplify(Area(Cardinality(enclosed), Segments(data)))

\* The assertions of the test example_shapes_have_correct_area, and the
\* flood-fill reference on its three shapes.
ExampleShapesOK ==
    /\ simplify(loop_area(grid1).area) = Area(2, 0)
    /\ is_integer(loop_area(grid2).area, 6)
    /\ loop_area(grid3) = [ok |-> TRUE, area |-> Area(32, 0)]
    /\ \A g \in {grid1, grid2, grid3} : loop_area(g).area = FloodArea(g)

\* C8: on a simple closed loop loop_area is Ok with the enclosed area: the
\* Empty cells a flood fill finds enclosed, plus half the number of segments.
\* It holds of every loop the search returns, and of the three shapes of the
\* test, whose areas are 2, 6 and 32.
C8_LoopAreaIsEnclosedArea ==
    /\ ExampleShapesOK
    /\ pc = "done" =>
           \A i \in 1 .. Len(gen.valid_grids) :
               loop_area(gen.valid_grids[i]) =
                   [ok |-> TRUE, area |-> FloodArea(gen.valid_grids[i])]

\* The search has returned a loop that encloses an Empty cell.
C8_Witness ==
    /\ pc = "done"
    /\ \E i \in 1 .. Len(gen.valid_grids) :
           /\ Segments(gen.valid_grids[i]) = 6
           /\ FloodArea(gen.valid_grids[i]) = Area(4, 0)
           /\ scan(gen.valid_grids[i]).j = 1

\* The sum of central_binom(s / 2) over the grids lo .. hi of a list, s being
\* the number of segments of the grid.
RECURSIVE SumBinom(_, _, _)
SumBinom(grids, lo, hi) ==
    IF lo > hi
    THEN 0
    ELSE IF lo = hi
         THEN central_binom(Segments(grids[lo]) \div 2)
         ELSE SumBinom(grids, lo, (lo + hi) \div 2)
                  + SumBinom(grids, (lo + hi) \div 2 + 1, hi)

\* A step that changes valid_cnt or valid_grids is the closure test of a
\* candidate whose area is the target; it appends the closed grid and adds
\* its multiplier.
HarvestStep ==
    /\ Checking
    /\ closes(gen, mv0)
    /\ closure_area(gen, mv0) = gen.target
    /\ gen'.valid_grids = Append(gen.valid_grids, closure_placed(gen, mv0).grid)
    /\ gen'.valid_cnt =
           gen.valid_cnt + central_binom(Segments(closure_placed(gen, mv0).grid) \div 2)

\* C10: in every state valid_cnt is the sum of central_binom(s / 2) over the
\* grids in valid_grids, and the two change only together, on a closure
\* whose simplified area is the target.
C10_ValidCntIsSum ==
    /\ [](gen.valid_cnt = SumBinom(gen.valid_grids, 1, Len(gen.valid_grids)))
    /\ [][(gen'.valid_cnt # gen.valid_cnt \/ gen'.valid_grids # gen.valid_grids)
              => HarvestStep]_vars

\* Two loops of six segments have been harvested, 20 curves each.
C10_Witness ==
    /\ Len(gen.valid_grids) = 2
    /\ gen.valid_cnt = 40
    /\ Segments(gen.valid_grids[2]) = 6

(***************************************************************************)
(* central_binom as a function of its argument: `input` is any u8 and      *)
(* `output` the pair <<hi, lo>> of the value returned.                     *)
(***************************************************************************)
InitBinom ==
    /\ gen = new(Area(0, 0), 0, 0)
    /\ frames = << >>
    /\ trial = 0
    /\ pc = "binom"
    /\ input \in 0 .. (U8 - 1)
    /\ output = None
    /\ slow = SlowIdle

\* central_binom(n): a table entry, or unimplemented!() above 26.
CallCentralBinom ==
    /\ pc = "binom"
    /\ IF central_binom_defined(input)
       THEN output' = central_binom_limbs(input) /\ pc' = "binom done"
       ELSE output' = output /\ pc' = "panic: central_binom"
    /\ UNCHANGED <<gen, frames, trial, input, slow>>

SpecBinom == InitBinom /\ [][CallCentralBinom]_vars

\* Arithmetic on naturals written as five digits in base 10^4, least
\* significant first.
Base == 100 * 100

Digits(v) == <<v[2] % Base, v[2] \div Base, v[1] % Base, v[1] \div Base, 0>>

MulSmall(d, k) ==
    LET p1 == d[1] * k
        p2 == d[2] * k + p1 \div Base
        p3 == d[3] * k + p2 \div Base
        p4 == d[4] * k + p3 \div Base
        p5 == d[5] * k + p4 \div Base
    IN  <<p1 % Base, p2 % Base, p3 % Base, p4 % Base, p5>>

\* C11: for every n in 0 ..= 26 central_binom(n) is the central binomial
\* coefficient C(2n, n), which is the sequence with C(0, 0) = 1 and
\* n * C(2n, n) = (4n - 2) * C(2n - 2, n - 1); central_binom(10) is 184756.
C11_CentralBinomIsBinomial ==
    pc = "binom done" =>
        /\ input \in 0 .. 26
        /\ input = 0 => output = <<0, 1>>
        /\ input > 0 =>
               MulSmall(Digits(output), input)
                   = MulSmall(Digits(central_binom_limbs(input - 1)), 4 * input - 2)
        /\ input = 10 => output = <<0, 184756>>

\* central_binom has returned the last entry of the table.
C11_Witness ==
    /\ pc = "binom done"
    /\ input = 26
    /\ output = <<4959185, 32948104>>

(***************************************************************************)
(* More properties of the search.                                          *)
(***************************************************************************)
Returned(data) == \E i \in 1 .. Len(gen.valid_grids) : gen.valid_grids[i] = data

\* C12: the search for area 2 with max_inner_cells = 49 and a max_length
\* that admits the minimal loop (4 up to the bound of the model) returns a
\* positive valid_cnt and a valid_grids that holds the minimal four-slant
\* loop of every 2x2 block.
C12_FindsMinimalLoop ==
    (/\ pc = "done"
     /\ gen.target = Area(2, 0)
     /\ gen.max_inner_cells = GridCells
     /\ gen.max_length >= 4) =>
        /\ gen.valid_cnt > 0
        /\ \A m \in MinimalLoops : Returned(m)

\* The search for area 2 has returned the minimal loop of the test.
C12_Witness ==
    /\ pc = "done"
    /\ gen.target = Area(2, 0)
    /\ gen.max_inner_cells = GridCells
    /\ gen.max_length >= 4
    /\ Returned(grid1)
    /\ gen.valid_cnt = 216

(***************************************************************************)
(* The search for targets larger than the grid; `input` keeps the target   *)
(* as it was handed to Generator::new.                                     *)
(***************************************************************************)
LargeTargets ==
    {Area(50, 0), Area(49, 1), Area(0, 99), Area(255, 6), Area(200, 120)}

InitLarge ==
    /\ \E t \in LargeTargets, mi \in InnerBounds, ml \in 0 .. MaxLength :
           /\ input = t
           /\ gen = new(t, mi, ml)
           /\ pc \in (IF simplify_overflows(t) THEN {"run", "panic: overflow"} ELSE {"run"})
    /\ frames = << >>
    /\ trial = 0
    /\ output = NoOpenings
    /\ slow = SlowIdle

SpecLarge == InitLarge /\ [][Next]_vars

\* C13 as stated: for every target whose area units + half / 2 is larger
\* than 49, and any bounds, generate returns no grid and valid_cnt 0.
C13_AsStated ==
    (pc = "done" /\ 2 * input.units + input.half > 2 * GridCells) =>
        /\ gen.valid_grids = << >>
        /\ gen.valid_cnt = 0

\* C14 as stated: max_length is the maximum length of a loop in segments;
\* whatever max_length is, no grid in valid_grids has more than max_length
\* segments.
C14_AsStated ==
    \A i \in 1 .. Len(gen.valid_grids) :
        Segments(gen.valid_grids[i]) <= gen.max_length

\* The non-empty cells of a grid that are not on its outer rim.
InnerSegments(data) ==
    Cardinality({ rc \in Idx \X Idx : /\ data[rc[1]][rc[2]] # Empty
                                      /\ rc[1] >= 1 /\ rc[1] <= 5
                                      /\ rc[2] >= 1 /\ rc[2] <= 5 })

\* C15 as stated: max_inner_cells is the maximum number of inner cells that
\* can form part of a curve; whatever max_inner_cells is, no grid in
\* valid_grids has more than max_inner_cells non-empty inner cells.
C15_AsStated ==
    \A i \in 1 .. Len(gen.valid_grids) :
        InnerSegments(gen.valid_grids[i]) <= gen.max_inner_cells

(***************************************************************************)
(* The operations of Area as functions: `input` is a pair of Areas, the    *)
(* second one used by the comparison only.  The first ranges over all u8   *)
(* values of both fields.                                                  *)
(***************************************************************************)
Byte == 0 .. (U8 - 1)

SmallAreas == { Area(u, h) : u \in 0 .. MaxSmall, h \in 0 .. MaxSmall }

InitArea ==
    /\ gen = new(Area(0, 0), 0, 0)
    /\ frames = << >>
    /\ trial = 0
    /\ pc = "area op"
    /\ \/ \E u \in Byte, h \in Byte : input = <<Area(u, h), Area(u, h)>>
       \/ input \in SmallAreas \X SmallAreas
    /\ output = None
    /\ slow = SlowIdle

\* a.simplify(): the value, or the panic of the overflow check on the sum.
CallSimplify ==
    /\ pc = "area op"
    /\ \/ /\ output' = [of |-> input[1], area |-> simplify(input[1])]
          /\ pc' = "simplified"
       \/ /\ simplify_overflows(input[1])
          /\ output' = output
          /\ pc' = "panic: overflow"
    /\ UNCHANGED <<gen, frames, trial, input, slow>>

\* simplify on the value simplify returned.
CallSimplifyAgain ==
    /\ pc = "simplified"
    /\ output' = [of |-> output.area, area |-> simplify(output.area)]
    /\ pc' \in (IF simplify_overflows(output.area)
                THEN {"simplified twice", "panic: overflow"}
                ELSE {"simplified twice"})
    /\ UNCHANGED <<gen, frames, trial, input, slow>>

\* a == b
CallEq ==
    /\ pc = "area op"
    /\ output' = eq(input[1], input[2])
    /\ pc' = "compared"
    /\ UNCHANGED <<gen, frames, trial, input, slow>>

NextArea == CallSimplify \/ CallSimplifyAgain \/ CallEq

SpecArea == InitArea /\ [][NextArea]_vars

\* C16 as stated: two Areas compare equal exactly when their simplified
\* forms match component-wise, so that Area{0, 2} == Area{1, 0}.
C16_AsStated ==
    pc = "compared" =>
        output = (/\ simplify(input[1]).units = simplify(input[2]).units
                  /\ simplify(input[1]).half = simplify(input[2]).half)

\* C16 amended: == compares units and half as they are, without
\* simplifying.  Equal Areas have equal simplified forms, but not the other
\* way round: Area{0, 2} != Area{1, 0}.  For two Areas that are already
\* simplified == holds exactly when the simplified forms match.
C16_EqIsComponentwise ==
    pc = "compared" =>
        LET a == input[1]
            b == input[2]
            same == simplify(a).units = simplify(b).units
                        /\ simplify(a).half = simplify(b).half
        IN  /\ output = (a.units = b.units /\ a.half = b.half)
            /\ output => same
            /\ (a.half <= 1 /\ b.half <= 1) => (output = same)
            /\ (a = Area(0, 2) /\ b = Area(1, 0)) => (same /\ ~output)

\* Area{0, 2} and Area{1, 0} have been compared.
C16_Witness ==
    /\ pc = "compared"
    /\ input = <<Area(0, 2), Area(1, 0)>>
    /\ output = FALSE

\* C17: simplify is idempotent: on the value simplify returned, simplify
\* returns the same value.
C17_SimplifyIdempotent ==
    pc = "simplified twice" =>
        /\ output.of = simplify(input[1])
        /\ output.area = output.of

\* simplify has been applied twice to an Area with several pairs of halves.
C17_Witness ==
    /\ pc = "simplified twice"
    /\ input[1] = Area(3, 7)
    /\ output.area = Area(6, 1)

\* C18 as stated: for all u8 values of units and half, simplify returns
\* half mod 2 and units + half div 2, the value 2 * units + half is kept,
\* and the u8 units field does not overflow.
C18_AsStated ==
    /\ pc # "panic: overflow"
    /\ pc = "simplified" =>
           /\ output.area.half = input[1].half % 2
           /\ output.area.units = input[1].units + input[1].half \div 2
           /\ 2 * output.area.units + output.area.half = 2 * input[1].units + input[1].half

\* The move log of a Generator value agrees with its grid.
Consistent(g) ==
    /\ Len(g.moves) = g.placed_cnt
    /\ \A i, j \in 1 .. Len(g.moves) : i < j => g.moves[i][1] # g.moves[j][1]
    /\ { g.moves[i][1] : i \in 1 .. Len(g.moves) }
           = { rc \in Idx \X Idx : g.grid[rc[1]][rc[2]] # Empty }
    /\ \A i \in 1 .. Len(g.moves) : g.placed[g.moves[i][1][1]][g.moves[i][1][2]]

\* The Generator values inside the next step of next_cell: after the
\* closing segment is placed, and after an extension is placed.
MidStates ==
    (IF Checking /\ intersections(gen, mv0[4], mv0[5]) < 2
           /\ closes(gen, mv0) /\ place_ok(gen, mv0[1], mv0[2])
     THEN {closure_placed(gen, mv0)}
     ELSE {})
    \cup
    (IF Extending /\ ~too_long(gen) /\ place_ok(gen, mv0[1], mv0[2])
     THEN {place(gen, mv0[1], mv0[2], mv0[3], mv0[4], mv0[5])}
     ELSE {})

\* C19: in every Generator state of the search, between the steps and
\* inside them, moves.len() is placed_cnt, the cells recorded in moves are
\* pairwise distinct and are exactly the non-empty cells of the grid, and
\* each of them has its placed flag set.
C19_MovesMatchGrid ==
    /\ Consistent(gen)
    /\ \A g \in MidStates : Consistent(g)

\* Five segments are placed while the start cell of an earlier trial keeps
\* its flag without being in the log.
C19_Witness ==
    /\ gen.placed_cnt = 5
    /\ Len(gen.moves) = 5
    /\ gen.placed[0][0]
    /\ gen.grid[0][0] = Empty
    /\ MidStates # {}

(***************************************************************************)
(* The slow search (src/arc-acreage/src/slow.rs): the same backtracking    *)
(* over cells that hold quarter-circle arcs, named by the corner of the    *)
(* cell the arc is centred on.  `slow` holds its Generator (gen), the      *)
(* local `moves` vectors of the active calls (frames), the position of the *)
(* first-placement loops (trial) and its control state (pc).               *)
(***************************************************************************)
TopLeft == "TopLeft"
TopRight == "TopRight"
BottomLeft == "BottomLeft"
BottomRight == "BottomRight"

slow_Area(u, s, l) == [units |-> u, small |-> s, large |-> l]

slow_simplify(a) ==
    LET u == IF a.small < a.large THEN a.small ELSE a.large
    IN  [units |-> (a.units + u) % U8, small |-> a.small - u, large |-> a.large - u]

\* The counters of slow's loop_area: n arcs, k outside and j inside full
\* cells, n_s arcs enclosing 1 - pi/4 and n_b arcs enclosing pi/4.
slow_scan(data) ==
    LET cells == Idx \X Idx
        arcs == { rc \in cells : data[rc[1]][rc[2]] # Empty }
        left == { rc \in cells : data[rc[1]][rc[2]] \in {TopLeft, BottomLeft} }
        right == { rc \in cells : data[rc[1]][rc[2]] \in {TopRight, BottomRight} }
        out(rc) == outside_before(data[rc[1]], rc[2])
    IN  [n |-> Cardinality(arcs),
         k |-> Cardinality({ rc \in cells \ arcs : out(rc) }),
         j |-> Cardinality({ rc \in cells \ arcs : ~out(rc) }),
         n_s |-> Cardinality({ rc \in left : out(rc) })
                     + Cardinality({ rc \in right : ~out(rc) }),
         n_b |-> Cardinality({ rc \in left : ~out(rc) })
                     + Cardinality({ rc \in right : out(rc) })]

slow_loop_area(data) ==
    LET cnt == slow_scan(data)
    IN  IF cnt.n_s + cnt.n_b # cnt.n
        THEN [ok |-> FALSE, err |-> "panic: assert_eq"]
        ELSE IF cnt.n + cnt.k + cnt.j # 49
             THEN [ok |-> FALSE, err |-> "LoopNotClosed"]
             ELSE [ok |-> TRUE, area |-> slow_simplify(slow_Area(cnt.j, cnt.n_s, cnt.n_b))]

slow_new(target, max_inner_cells, max_length) ==
    [ target          |-> slow_simplify(target),
      max_inner_cells |-> max_inner_cells,
      max_length      |-> max_length,
      grid            |-> EmptyGrid,
      placed          |-> [r \in Idx |-> [c \in Idx |-> FALSE]],
      placed_cnt      |-> 0,
      moves           |-> << >>,
      start           |-> <<0, 0>>,
      head            |-> <<0, 0>>,
      valid_grids     |-> << >>,
      inner_cells     |-> 0 ]

slow_place_ok(g, row, col) == ~g.placed[row][col]

slow_place(g, row, col, c, headr, headc) ==
    [g EXCEPT !.grid[row][col] = c,
              !.placed[row][col] = TRUE,
              !.placed_cnt = @ + 1,
              !.moves = Append(@, <<<<row, col>>, g.head>>),
              !.head = <<headr, headc>>,
              !.inner_cells = IF row > 0 /\ row < 6 /\ col > 0 /\ col < 6
                              THEN @ + 1 ELSE @]

slow_unplace_ok(g) ==
    /\ Len(g.moves) > 0
    /\ LET m == g.moves[Len(g.moves)] IN g.placed[m[1][1]][m[1][2]]

slow_unplace(g) ==
    LET m == g.moves[Len(g.moves)]
        row == m[1][1]
        col == m[1][2]
        old_head == m[2]
    IN  [g EXCEPT !.moves = SubSeq(@, 1, Len(@) - 1),
                  !.grid[row][col] = Empty,
                  !.placed[row][col] = FALSE,
                  !.placed_cnt = @ - 1,
                  !.head = old_head,
                  !.inner_cells = IF row > 0 /\ row < 6 /\ col > 0 /\ col < 6
                                  THEN @ - 1 ELSE @]

\* The first-placement loops: r, c, and the four arcs of a cell.
SlowTrials == 4 * GridCells

slow_trial_r(t) == t \div (4 * GridSize)

slow_trial_c(t) == (t \div 4) % GridSize

slow_trial_cell(t) == <<TopLeft, TopRight, BottomLeft, BottomRight>>[(t % 4) + 1]

slow_first_start(r, c, cell) ==
    IF cell \in {TopLeft, BottomRight} THEN <<r + 1, c>> ELSE <<r, c>>

slow_first_head(r, c, cell) ==
    IF cell \in {TopLeft, BottomRight} THEN <<r, c + 1>> ELSE <<r + 1, c + 1>>

slow_mark_first(g, r, c) == [g EXCEPT !.placed[r][c] = TRUE]

\* Mutant: only the first of the two arcs of a cell is pushed.
slow_candidate_one_arc(g, d) ==
    LET dr == d[1]
        dc == d[2]
        nr == g.head[1] + dr
        nc == g.head[2] + dc
        ncellr == IF dr = 1 THEN nr - 1 ELSE nr
        ncellc == IF dc = 1 THEN nc - 1 ELSE nc
    IN  IF nr < 0 \/ nr > 7 \/ nc < 0 \/ nc > 7
        THEN << >>
        ELSE IF g.placed[ncellr][ncellc]
             THEN << >>
             ELSE IF dr = dc
                  THEN << <<ncellr, ncellc, TopRight, nr, nc>> >>
                  ELSE << <<ncellr, ncellc, TopLeft, nr, nc>> >>

\* The moves pushed for one of the four cells around the head.
slow_candidate(g, d) ==
    LET dr == d[1]
        dc == d[2]
        nr == g.head[1] + dr
        nc == g.head[2] + dc
        ncellr == IF dr = 1 THEN nr - 1 ELSE nr
        ncellc == IF dc = 1 THEN nc - 1 ELSE nc
    IN  IF nr < 0 \/ nr > 7 \/ nc < 0 \/ nc > 7
        THEN << >>
        ELSE IF g.placed[ncellr][ncellc]
             THEN << >>
             ELSE IF dr = dc
                  THEN << <<ncellr, ncellc, TopRight, nr, nc>>,
                          <<ncellr, ncellc, BottomLeft, nr, nc>> >>
                  ELSE << <<ncellr, ncellc, TopLeft, nr, nc>>,
                          <<ncellr, ncellc, BottomRight, nr, nc>> >>

slow_candidates(g) ==
    slow_candidate(g, Deltas[1]) \o slow_candidate(g, Deltas[2])
        \o slow_candidate(g, Deltas[3]) \o slow_candidate(g, Deltas[4])

slow_last_cell_ok(g) ==
    LET m == g.moves[Len(g.moves)] IN g.grid[m[1][1]][m[1][2]] # Empty

slow_intersections(g, nr, nc) ==
    (IF nr > 0 /\ nc > 0 /\ g.grid[nr - 1][nc - 1] # Empty THEN 1 ELSE 0)
  + (IF nr > 0 /\ nc < 7 /\ g.grid[nr - 1][nc] # Empty THEN 1 ELSE 0)
  + (IF nr < 7 /\ nc > 0 /\ g.grid[nr][nc - 1] # Empty THEN 1 ELSE 0)
  + (IF nr < 7 /\ nc < 7 /\ g.grid[nr][nc] # Empty THEN 1 ELSE 0)

slow_closes(g, mv) == mv[4] = g.start[1] /\ mv[5] = g.start[2]

slow_closure_placed(g, mv) == slow_place(g, mv[1], mv[2], mv[3], mv[4], mv[5])

slow_closure_ok(g, mv) ==
    /\ slow_intersections(g, mv[4], mv[5]) = 1
    /\ slow_place_ok(g, mv[1], mv[2])
    /\ slow_closure_placed(g, mv).placed_cnt % 2 = 0
    /\ slow_loop_area(slow_closure_placed(g, mv).grid).ok

slow_closure_matches(g, mv) ==
    slow_simplify(slow_loop_area(slow_closure_placed(g, mv).grid).area) = g.target

slow_harvest(g) == [g EXCEPT !.valid_grids = Append(@, g.grid)]

slow_too_long(g) == g.placed_cnt + 1 > g.max_length

slow_recurses(g) == g.inner_cells <= g.max_inner_cells

\* The slow search runs once the fast one has returned.
SlowTop == pc = "done" /\ slow.pc = "run" /\ slow.frames = << >> /\ slow.trial < SlowTrials

SlowInCall == pc = "done" /\ slow.pc = "run" /\ slow.frames # << >>

slow_cur == slow.frames[Len(slow.frames)]

slow_mv0 == Head(slow_cur.moves)

SlowState(g, fs, t, p) == [gen |-> g, frames |-> fs, trial |-> t, pc |-> p]

\* The end of one iteration of the loop over the four arcs of a cell; after
\* the fourth the cell stays marked and the grid must be empty.
SlowEndTrial(g) ==
    IF slow.trial % 4 = 3
    THEN SlowState(slow_mark_first(g, slow_trial_r(slow.trial), slow_trial_c(slow.trial)),
                   << >>, slow.trial + 1,
                   IF g.grid = EmptyGrid THEN "run" ELSE "panic: grid not empty")
    ELSE SlowState(g, << >>, slow.trial + 1, "run")

SlowNextCandidate(fs) ==
    [fs EXCEPT ![Len(fs)] = Frame(Tail(fs[Len(fs)].moves))]

SlowSkipCorner ==
    /\ SlowTop
    /\ IsCorner(slow_first_start(slow_trial_r(slow.trial), slow_trial_c(slow.trial),
                                 slow_trial_cell(slow.trial)))
    /\ slow' = SlowEndTrial(slow.gen)
    /\ UNCHANGED <<gen, frames, trial, pc, input, output>>

SlowFirstPlacement ==
    /\ SlowTop
    /\ LET r == slow_trial_r(slow.trial)
           c == slow_trial_c(slow.trial)
           cell == slow_trial_cell(slow.trial)
           h == slow_first_head(r, c, cell)
           g1 == [slow.gen EXCEPT !.head = h, !.start = slow_first_start(r, c, cell)]
           g2 == slow_place(g1, r, c, cell, h[1], h[2])
       IN  /\ ~IsCorner(slow_first_start(r, c, cell))
           /\ IF slow_place_ok(g1, r, c) /\ slow_last_cell_ok(g2)
              THEN slow' = SlowState(g2, << Frame(slow_candidates(g2)) >>, slow.trial, "run")
              ELSE slow' = SlowState(g1, << >>, slow.trial, "panic: place")
    /\ UNCHANGED <<gen, frames, trial, pc, input, output>>

SlowChecking == SlowInCall /\ slow_cur.moves # << >> /\ slow_cur.stage = "check"

SlowReject ==
    /\ SlowChecking
    /\ slow_intersections(slow.gen, slow_mv0[4], slow_mv0[5]) >= 2
    /\ slow' = [slow EXCEPT !.frames = SlowNextCandidate(@)]
    /\ UNCHANGED <<gen, frames, trial, pc, input, output>>

SlowClosure ==
    /\ SlowChecking
    /\ slow_intersections(slow.gen, slow_mv0[4], slow_mv0[5]) < 2
    /\ slow_closes(slow.gen, slow_mv0)
    /\ IF ~slow_closure_ok(slow.gen, slow_mv0)
       THEN slow' = [slow EXCEPT !.pc = "panic: closure"]
       ELSE IF slow_closure_matches(slow.gen, slow_mv0)
            THEN slow' = [slow EXCEPT
                     !.gen = slow_unplace(slow_harvest(slow_closure_placed(slow.gen, slow_mv0))),
                     !.frames[Len(slow.frames)].stage = "extend"]
            ELSE slow' = [slow EXCEPT
                     !.gen = slow_unplace(slow_closure_placed(slow.gen, slow_mv0)),
                     !.frames = SlowNextCandidate(@)]
    /\ UNCHANGED <<gen, frames, trial, pc, input, output>>

SlowExtending ==
    /\ SlowInCall
    /\ slow_cur.moves # << >>
    /\ \/ slow_cur.stage = "extend"
       \/ /\ slow_cur.stage = "check"
          /\ slow_intersections(slow.gen, slow_mv0[4], slow_mv0[5]) < 2
          /\ ~slow_closes(slow.gen, slow_mv0)

SlowPruneLength ==
    /\ SlowExtending
    /\ slow_too_long(slow.gen)
    /\ slow' = [slow EXCEPT !.frames = SlowNextCandidate(@)]
    /\ UNCHANGED <<gen, frames, trial, pc, input, output>>

SlowExtend ==
    /\ SlowExtending
    /\ ~slow_too_long(slow.gen)
    /\ LET g2 == slow_place(slow.gen, slow_mv0[1], slow_mv0[2], slow_mv0[3],
                            slow_mv0[4], slow_mv0[5])
       IN  IF ~slow_place_ok(slow.gen, slow_mv0[1], slow_mv0[2])
           THEN slow' = [slow EXCEPT !.pc = "panic: place"]
           ELSE /\ slow_recurses(g2)
                /\ IF slow_last_cell_ok(g2)
                   THEN slow' = [slow EXCEPT !.gen = g2,
                                     !.frames = Append(@, Frame(slow_candidates(g2)))]
                   ELSE slow' = [slow EXCEPT !.gen = g2, !.pc = "panic: last cell empty"]
    /\ UNCHANGED <<gen, frames, trial, pc, input, output>>

SlowExtendNoRecurse ==
    /\ SlowExtending
    /\ ~slow_too_long(slow.gen)
    /\ slow_place_ok(slow.gen, slow_mv0[1], slow_mv0[2])
    /\ LET g2 == slow_place(slow.gen, slow_mv0[1], slow_mv0[2], slow_mv0[3],
                            slow_mv0[4], slow_mv0[5])
       IN  /\ ~slow_recurses(g2)
           /\ slow' = [slow EXCEPT !.gen = slow_unplace(g2),
                                   !.frames = SlowNextCandidate(@)]
    /\ UNCHANGED <<gen, frames, trial, pc, input, output>>

SlowReturn ==
    /\ SlowInCall
    /\ slow_cur.moves = << >>
    /\ IF ~slow_unplace_ok(slow.gen)
       THEN slow' = [slow EXCEPT !.pc = "panic: unplace"]
       ELSE IF Len(slow.frames) = 1
            THEN slow' = SlowEndTrial(slow_unplace(slow.gen))
            ELSE slow' = [slow EXCEPT
                     !.gen = slow_unplace(slow.gen),
                     !.frames = SlowNextCandidate(SubSeq(@, 1, Len(@) - 1))]
    /\ UNCHANGED <<gen, frames, trial, pc, input, output>>

\* slow's generate returns valid_grids.
SlowFinish ==
    /\ pc = "done"
    /\ slow.pc = "run"
    /\ slow.frames = << >>
    /\ slow.trial = SlowTrials
    /\ slow' = [slow EXCEPT !.pc = "done"]
    /\ UNCHANGED <<gen, frames, trial, pc, input, output>>

\* The integer targets handed to both searches, in units.
BothTargets == {2, 4}

InitBoth ==
    /\ \E t \in BothTargets, mi \in InnerBounds, ml \in 0 .. MaxLengthSlow :
           /\ gen = new(Area(t, 0), mi, ml)
           /\ slow = SlowState(slow_new(slow_Area(t, 0, 0), mi, ml), << >>, 0, "run")
    /\ frames = << >>
    /\ trial = 0
    /\ pc = "run"
    /\ input = None
    /\ output = NoOpenings

NextBoth ==
    \/ SkipCorner
    \/ FirstPlacement
    \/ Reject
    \/ Closure
    \/ PruneLength
    \/ Extend
    \/ ExtendNoRecurse
    \/ Return
    \/ Finish
    \/ SlowSkipCorner
    \/ SlowFirstPlacement
    \/ SlowReject
    \/ SlowClosure
    \/ SlowPruneLength
    \/ SlowExtend
    \/ SlowExtendNoRecurse
    \/ SlowReturn
    \/ SlowFinish

SpecBoth == InitBoth /\ [][NextBoth]_vars

\* C20: for the same integer target and the same bounds, the valid_cnt of
\* the fast search is the number of grids in the valid_grids of the slow
\* search.
C20_FastAgreesWithSlow ==
    (pc = "done" /\ slow.pc = "done") =>
        gen.valid_cnt = Len(slow.gen.valid_grids)

\* Both searches have returned and have found loops.
C20_Witness ==
    /\ pc = "done"
    /\ slow.pc = "done"
    /\ gen.valid_cnt = 216
    /\ Len(slow.gen.valid_grids) = 216

\* ---------------------------------------------------------------------
\* andys-morning-stroll: random walks on the football and the kitchen floor
\* ---------------------------------------------------------------------

\* Bounds of the walk specification: the largest limit handed to
\* walk_until_limit and the number of moves after which the unbounded loop
\* of walk is no longer followed.
MaxLimit == 4
MaxWalk == 5

\* Football::new: the hard-coded transition table, entry n for hexagon n.
transitions ==
    << <<2, 6, 5>>,    <<1, 7, 3>>,    <<4, 8, 2>>,    <<3, 9, 5>>,
       <<4, 10, 1>>,   <<1, 11, 12>>,  <<2, 12, 13>>,  <<3, 13, 14>>,
       <<4, 14, 15>>,  <<5, 11, 15>>,  <<6, 10, 20>>,  <<6, 7, 16>>,
       <<7, 8, 17>>,   <<8, 9, 18>>,   <<9, 10, 19>>,  <<12, 17, 20>>,
       <<13, 16, 18>>, <<14, 17, 19>>, <<15, 18, 20>>, <<11, 16, 19>> >>

\* Football::make_move with the sampled index idx in 0..2.
Football_make_move(curr, idx) == transitions[curr][idx + 1]

\* i32::rem_euclid for a positive modulus; rem is the truncating %.
rem(a, n) == IF a >= 0 THEN a % n ELSE -((-a) % n)

rem_euclid(a, n) == a % n

\* KitchenFloor::coord_hex_type
coord_hex_type(coord) == rem_euclid(coord[2], 3) = rem_euclid(3 - coord[1], 3)

\* KitchenFloor::coord_neighbours
coord_neighbours(coord) ==
    IF coord_hex_type(coord)
    THEN << <<coord[1] + 1, coord[2] + 1>>,
            <<coord[1], coord[2] - 1>>,
            <<coord[1] - 1, coord[2]>> >>
    ELSE << <<coord[1], coord[2] + 1>>,
            <<coord[1] + 1, coord[2]>>,
            <<coord[1] - 1, coord[2] - 1>> >>

\* KitchenFloor::move_from_idx, as the new value of self.coords.
move_from_idx(coords, idx) ==
    IF coord_hex_type(coords)
    THEN CASE idx = 0 -> <<coords[1] + 1, coords[2] + 1>>
           [] idx = 1 -> <<coords[1], coords[2] - 1>>
           [] idx = 2 -> <<coords[1] - 1, coords[2]>>
    ELSE CASE idx = 0 -> <<coords[1], coords[2] + 1>>
           [] idx = 1 -> <<coords[1] - 1, coords[2] - 1>>
           [] idx = 2 -> <<coords[1] + 1, coords[2]>>

\* RandomWalk::make_move of either implementor; idx is the index the random
\* number generator produced.
make_move(walker, state, idx) ==
    IF walker = "Football" THEN Football_make_move(state, idx)
                           ELSE move_from_idx(state, idx)

\* The locals of a walk: the walker's state, cnt, the states after each move
\* made so far, and the value returned.
Walking(state, cnt, trail, ret) ==
    [state |-> state, cnt |-> cnt, trail |-> trail, ret |-> ret]

NoResult == [tag |-> "none", val |-> 0]

\* walk and walk_until_limit, up to the loop: set_state(src), one move, cnt = 1.
walk_enter_no_move(walker, src, idx) == Walking(src, 0, << >>, NoResult)

walk_enter(walker, src, idx) ==
    LET s == make_move(walker, src, idx) IN Walking(s, 1, <<s>>, NoResult)

\* The loop condition of walk.
walk_continues(state, tgt) == state # tgt

\* The loop condition of walk_until_limit.
walk_until_limit_continues_at_limit(state, tgt, cnt, limit) ==
    state # tgt /\ cnt <= limit

walk_until_limit_continues(state, tgt, cnt, limit) ==
    state # tgt /\ cnt < limit

\* The value walk_until_limit returns once its loop has ended.
walk_until_limit_result(state, tgt, cnt, limit) ==
    IF cnt = limit
    THEN IF state = tgt THEN [tag |-> "Ok", val |-> limit]
                        ELSE [tag |-> "Err", val |-> limit]
    ELSE [tag |-> "Ok", val |-> cnt]

\* One more iteration of either loop.
walk_step(walker, w, idx) ==
    LET s == make_move(walker, w.state, idx)
    IN  Walking(s, w.cnt + 1, Append(w.trail, s), w.ret)

KitchenStates == { <<0, 0>>, <<1, 1>>, <<0, -1>> }
FootballStates == {1, 2, 20}

\* A walker of either kind, in the state it had before, and the arguments of
\* one call of walk or walk_until_limit.
InitWalk ==
    /\ gen = new(Area(0, 0), 0, 0)
    /\ frames = << >>
    /\ trial = 0
    /\ slow = SlowIdle
    /\ pc = "walk: call"
    /\ \E walker \in {"KitchenFloor", "Football"} :
         LET S == IF walker = "Football" THEN FootballStates ELSE KitchenStates
         IN  \E before \in S, src \in S, tgt \in S :
               /\ \/ \E limit \in 0 .. MaxLimit :
                       input = [walker |-> walker, fn |-> "walk_until_limit",
                                before |-> before, src |-> src,
                                tgt |-> tgt, limit |-> limit]
                  \/ input = [walker |-> walker, fn |-> "walk",
                              before |-> before, src |-> src,
                              tgt |-> tgt, limit |-> 0]
               /\ output = Walking(before, 0, << >>, NoResult)

\* walk: set_state, the first move, cnt = 1.
WalkCall ==
    /\ pc = "walk: call" /\ input.fn = "walk"
    /\ \E idx \in 0 .. 2 : output' = walk_enter(input.walker, input.src, idx)
    /\ pc' = "walk: loop"
    /\ UNCHANGED <<gen, frames, trial, input, slow>>

\* walk: one iteration of the loop (followed for MaxWalk moves at most).
WalkLoop ==
    /\ pc = "walk: loop" /\ input.fn = "walk"
    /\ walk_continues(output.state, input.tgt)
    /\ output.cnt < MaxWalk
    /\ \E idx \in 0 .. 2 : output' = walk_step(input.walker, output, idx)
    /\ UNCHANGED <<gen, frames, trial, pc, input, slow>>

\* walk: the loop has ended, cnt is returned.
WalkReturn ==
    /\ pc = "walk: loop" /\ input.fn = "walk"
    /\ ~walk_continues(output.state, input.tgt)
    /\ output' = [output EXCEPT !.ret = [tag |-> "u32", val |-> output.cnt]]
    /\ pc' = "walk: returned"
    /\ UNCHANGED <<gen, frames, trial, input, slow>>

\* walk_until_limit: the panic on limit == 0.
LimitPanic ==
    /\ pc = "walk: call" /\ input.fn = "walk_until_limit"
    /\ input.limit = 0
    /\ pc' = "panic: limit should be > 0"
    /\ UNCHANGED <<gen, frames, trial, input, output, slow>>

\* walk_until_limit: set_state, the first move, cnt = 1.
LimitCall ==
    /\ pc = "walk: call" /\ input.fn = "walk_until_limit"
    /\ input.limit # 0
    /\ \E idx \in 0 .. 2 : output' = walk_enter(input.walker, input.src, idx)
    /\ pc' = "walk: loop"
    /\ UNCHANGED <<gen, frames, trial, input, slow>>

\* walk_until_limit: one iteration of the loop.
LimitLoop ==
    /\ pc = "walk: loop" /\ input.fn = "walk_until_limit"
    /\ walk_until_limit_continues(output.state, input.tgt, output.cnt, input.limit)
    /\ \E idx \in 0 .. 2 : output' = walk_step(input.walker, output, idx)
    /\ UNCHANGED <<gen, frames, trial, pc, input, slow>>

\* walk_until_limit: the loop has ended, the result is returned.
LimitReturn ==
    /\ pc = "walk: loop" /\ input.fn = "walk_until_limit"
    /\ ~walk_until_limit_continues(output.state, input.tgt, output.cnt, input.limit)
    /\ output' = [output EXCEPT !.ret =
                    walk_until_limit_result(output.state, input.tgt,
                                            output.cnt, input.limit)]
    /\ pc' = "walk: returned"
    /\ UNCHANGED <<gen, frames, trial, input, slow>>

NextWalk ==
    \/ WalkCall \/ WalkLoop \/ WalkReturn
    \/ LimitPanic \/ LimitCall \/ LimitLoop \/ LimitReturn

SpecWalk == InitWalk /\ [][NextWalk]_vars

\* The tgt state was first reached by move n of the walk.
FirstReachedAt(n) ==
    /\ n \in 1 .. Len(output.trail)
    /\ output.trail[n] = input.tgt
    /\ \A i \in 1 .. (n - 1) : output.trail[i] # input.tgt

\* C21: walk_until_limit with limit > 0 returns Ok(n), 1 <= n <= limit, n the
\* first step at which the state is tgt, when tgt is reached by step limit,
\* and Err(limit) after exactly limit moves otherwise; with limit == 0 it
\* panics and the walker's state is the one it had before the call.
C21_WalkUntilLimitResult ==
    input.fn = "walk_until_limit" =>
      /\ pc = "walk: returned" =>
           /\ input.limit > 0
           /\ output.ret.tag \in {"Ok", "Err"}
           /\ output.ret.tag = "Ok" =>
                /\ output.ret.val \in 1 .. input.limit
                /\ Len(output.trail) = output.ret.val
                /\ FirstReachedAt(output.ret.val)
           /\ output.ret.tag = "Err" =>
                /\ output.ret.val = input.limit
                /\ Len(output.trail) = input.limit
                /\ \A i \in 1 .. input.limit : output.trail[i] # input.tgt
      /\ input.limit = 0 =>
           /\ pc \in {"walk: call", "panic: limit should be > 0"}
           /\ output = Walking(input.before, 0, << >>, NoResult)
      /\ pc = "walk: loop" => Len(output.trail) <= input.limit

C21_Witness ==
    /\ input.fn = "walk_until_limit" /\ pc = "walk: returned"
    /\ output.ret.tag = "Ok" /\ output.ret.val = 2 /\ input.limit = MaxLimit
    /\ input.src = input.tgt

\* C22: walk moves before it tests for tgt: it never returns 0, also when
\* src == tgt, and the n it returns is the first move after which the state
\* is tgt, n moves having been made.
C22_WalkMovesFirst ==
    input.fn = "walk" =>
      /\ pc = "walk: loop" => Len(output.trail) >= 1
      /\ pc = "walk: returned" =>
           /\ output.ret.val >= 1
           /\ Len(output.trail) = output.ret.val
           /\ output.state = input.tgt
           /\ FirstReachedAt(output.ret.val)

C22_Witness ==
    /\ input.fn = "walk" /\ pc = "walk: returned"
    /\ input.src = input.tgt /\ output.ret.val > 2

\* ---------------------------------------------------------------------
\* The kitchen floor: neighbours of a hexagon
\* ---------------------------------------------------------------------

\* Bounds of the kitchen-floor specification: coordinates handed to
\* coord_neighbours lie in -MaxCoord..MaxCoord, and the walker is followed
\* for MaxFloorSteps moves from (0,0). coord_neighbours is private to the
\* crate and is only handed hexagons a few steps from (0,0), so the i32
\* coordinates stay far from their limits.
MaxCoord == 3
MaxFloorSteps == 4

Floor(coords, steps, of, neighbours) ==
    [coords |-> coords, steps |-> steps, of |-> of, neighbours |-> neighbours]

\* KitchenFloor::new, and some coordinate to ask the neighbours of.
InitFloor ==
    /\ gen = new(Area(0, 0), 0, 0)
    /\ frames = << >>
    /\ trial = 0
    /\ slow = SlowIdle
    /\ pc = "floor"
    /\ input \in (-MaxCoord .. MaxCoord) \X (-MaxCoord .. MaxCoord)
    /\ output = Floor(<<0, 0>>, 0, <<0, 0>>, << >>)

\* One move of the walker.
FloorMove ==
    /\ pc \in {"floor", "self.neighbours"}
    /\ output.steps < MaxFloorSteps
    /\ \E idx \in 0 .. 2 :
         output' = Floor(move_from_idx(output.coords, idx), output.steps + 1,
                         output.of, << >>)
    /\ pc' = "floor"
    /\ UNCHANGED <<gen, frames, trial, input, slow>>

\* KitchenFloor::coord_neighbours(input)
CallCoordNeighbours ==
    /\ pc = "floor"
    /\ output' = Floor(output.coords, output.steps, input, coord_neighbours(input))
    /\ pc' = "coord_neighbours"
    /\ UNCHANGED <<gen, frames, trial, input, slow>>

\* self.neighbours(), the neighbours of the hexagon the walker is on.
CallNeighbours ==
    /\ pc = "floor"
    /\ output' = Floor(output.coords, output.steps, output.coords,
                       coord_neighbours(output.coords))
    /\ pc' = "self.neighbours"
    /\ UNCHANGED <<gen, frames, trial, input, slow>>

NextFloor == FloorMove \/ CallCoordNeighbours \/ CallNeighbours

SpecFloor == InitFloor /\ [][NextFloor]_vars

MaxDecisions == 5

\* Decisions::new for an array of n entries.
Decisions_new(n) == [i \in 1 .. n |-> 0]

\* Decisions::inc: the entries before the first one that is not 2 are reset,
\* that one is incremented; an array of 2s becomes an array of 0s.
inc(curr) ==
    LET open == { i \in 1 .. Len(curr) : curr[i] # 2 }
    IN  [i \in 1 .. Len(curr) |->
           IF \A j \in open : i < j THEN 0
           ELSE IF \A j \in open : i <= j THEN curr[i] + 1
           ELSE curr[i]]

\* The inner loop of enumerate_every_walk from entry k on: TRUE when the walk
\* comes back to (0,0) at some step.
RECURSIVE walk_returns(_, _, _)
walk_returns(coords, curr, k) ==
    IF k > Len(curr) THEN FALSE
    ELSE LET c == move_from_idx(coords, curr[k])
         IN  IF c = <<0, 0>> THEN TRUE ELSE walk_returns(c, curr, k + 1)

\* The locals of enumerate_every_walk, and the decision arrays its loop has
\* walked so far (repeated: one of them was walked twice).
Enumeration(decisions, i, terminated_cnt, walked, repeated) ==
    [decisions |-> decisions, i |-> i, terminated_cnt |-> terminated_cnt,
     walked |-> walked, repeated |-> repeated]

\* let max = 3.pow(20) - 1
enumerate_max(n) == 3 ^ n - 1

\* The counter of GraphPathCounter::calculate and its locals.
Counting(cells, step, i, returned_paths, returning_paths) ==
    [cells |-> cells, step |-> step, i |-> i,
     returned_paths |-> returned_paths, returning_paths |-> returning_paths]

\* GraphPathCounter::new: one path, at (0,0), at step 0.
GraphPathCounter_new == (<<0, 0>> :> 1)

\* A call of enumerate_every_walk or of GraphPathCounter::new().calculate(steps).
InitEnum ==
    /\ gen = new(Area(0, 0), 0, 0)
    /\ frames = << >>
    /\ trial = 0
    /\ slow = SlowIdle
    /\ \E n \in 1 .. MaxDecisions :
         \/ /\ input = [fn |-> "enumerate_every_walk", steps |-> n]
            /\ pc = "enumerate"
            /\ output = Enumeration(Decisions_new(n), 0, 0, {}, FALSE)
         \/ /\ input = [fn |-> "calculate", steps |-> n]
            /\ pc = "calculate"
            /\ output = Counting(GraphPathCounter_new, 0, 0, 0, 0)

\* One iteration of for i in 0..max: inc, then the walk the array describes.
EnumerateWalk ==
    /\ pc = "enumerate"
    /\ output.i < enumerate_max(input.steps)
    /\ LET d == inc(output.decisions)
       IN  output' = Enumeration(
               d, output.i + 1,
               output.terminated_cnt +
                   (IF walk_returns(<<0, 0>>, d, 1) THEN 1 ELSE 0),
               output.walked \cup {d},
               output.repeated \/ d \in output.walked)
    /\ UNCHANGED <<gen, frames, trial, pc, input, slow>>

\* The loop is over: the probability printed is (max - terminated_cnt) / max.
EnumerateFinish ==
    /\ pc = "enumerate"
    /\ output.i = enumerate_max(input.steps)
    /\ pc' = "enumerated"
    /\ UNCHANGED <<gen, frames, trial, input, output, slow>>

\* The neighbour n contributes its count at the given step: paths that were
\* at the origin have ended, except the one that starts there.
counts_from_any(n, step) == TRUE

counts_from(n, step) == n # <<0, 0>> \/ step = 1

\* GraphPathCounter::next, as the new table; step is the incremented self.step.
GraphPathCounter_next(cells, step) ==
    LET known == DOMAIN cells
        table == known \cup { coord_neighbours(c)[i] : c \in known, i \in 1 .. 3 }
        old(c) == IF c \in known THEN cells[c] ELSE 0
        part(n) == IF counts_from(n, step) /\ n \in table THEN old(n) ELSE 0
    IN  [c \in table |->
           LET ns == coord_neighbours(c)
           IN  part(ns[1]) + part(ns[2]) + part(ns[3])]

\* One iteration of for i in 0..steps in calculate.
CalculateNext ==
    /\ pc = "calculate"
    /\ output.i < input.steps
    /\ LET cells == GraphPathCounter_next(output.cells, output.step + 1)
           returned_paths_at_step == cells[<<0, 0>>]
       IN  output' = Counting(
               cells, output.step + 1, output.i + 1,
               output.returned_paths +
                   returned_paths_at_step * 3 ^ (input.steps - output.i - 1),
               output.returning_paths + returned_paths_at_step)
    /\ UNCHANGED <<gen, frames, trial, pc, input, slow>>

\* The loop is over: p = (3^steps - returned_paths) / 3^steps is printed.
CalculateFinish ==
    /\ pc = "calculate"
    /\ output.i = input.steps
    /\ pc' = "calculated"
    /\ UNCHANGED <<gen, frames, trial, input, output, slow>>

NextEnum == EnumerateWalk \/ EnumerateFinish \/ CalculateNext \/ CalculateFinish

SpecEnum == InitEnum /\ [][NextEnum]_vars

\* C24 as stated: enumerate_every_walk walks every one of the 3^n decision
\* arrays exactly once and divides by 3^n.
C24_AsStated ==
    pc = "enumerated" =>
      /\ output.walked = [1 .. input.steps -> 0 .. 2]
      /\ ~output.repeated
      /\ enumerate_max(input.steps) = 3 ^ input.steps

\* The hexagons a sequence of k decisions leads through, from (0,0).
RECURSIVE TrailOf(_, _, _)
TrailOf(coords, s, j) ==
    IF j > Len(s) THEN << >>
    ELSE LET c == move_from_idx(coords, s[j])
         IN  <<c>> \o TrailOf(c, s, j + 1)

\* The sequences of k decisions that end on c and were not at (0,0) after
\* any of the steps 1..k-1.
EndingAt(k, c) ==
    { s \in [1 .. k -> 0 .. 2] :
        LET p == TrailOf(<<0, 0>>, s, 1)
        IN  p[k] = c /\ \A j \in 1 .. (k - 1) : p[j] # <<0, 0>> }

\* The sequences of n decisions whose walk enumerate_every_walk counts as
\* terminated.
Terminated(n) == { s \in [1 .. n -> 0 .. 2] : walk_returns(<<0, 0>>, s, 1) }

\* C25: after k >= 1 calls of next the count of every cell of the table is
\* the number of sequences of k moves from (0,0) that end on the cell without
\* having been at (0,0) after an earlier step, every cell such a sequence
\* ends on is in the table, and the returned paths calculate sums over s
\* steps are as many as the sequences of s decisions the enumeration counts
\* as terminated.
C25_CountsArePaths ==
    /\ (input.fn = "calculate" /\ output.step >= 1) =>
         /\ \A c \in DOMAIN output.cells :
              output.cells[c] = Cardinality(EndingAt(output.step, c))
         /\ \A s \in [1 .. output.step -> 0 .. 2] :
              TrailOf(<<0, 0>>, s, 1)[output.step] \in DOMAIN output.cells
    /\ pc = "calculated" =>
         output.returned_paths = Cardinality(Terminated(input.steps))
    /\ pc = "enumerated" =>
         output.terminated_cnt = Cardinality(Terminated(input.steps))

C25_Witness ==
    /\ pc = "calculated" /\ input.steps = 4
    /\ output.cells[<<0, 0>>] > 0
    /\ output.returned_paths > 3 * 3 ^ 2

(***************************************************************************)
(* Further properties of the search of fast.rs.                            *)
(***************************************************************************)

\* This step is a closure test that returned from place, loop_area and unplace.
ClosureTested ==
    /\ Checking
    /\ intersections(gen, mv0[4], mv0[5]) < 2
    /\ closes(gen, mv0)
    /\ pc' = "run"

\* C26 as stated: after a closure test the closing segment is unplaced and,
\* matched or not, the same candidate goes on to be placed as an extension
\* whenever placed_cnt + 1 <= max_length.
C26_AsStated ==
    [][ClosureTested =>
         /\ gen'.grid = gen.grid
         /\ gen'.moves = gen.moves
         /\ ~too_long(gen) =>
              frames'[Len(frames)] = [moves |-> cur.moves, stage |-> "extend"]]_vars

\* The placed segments that have an end on the vertex (vr, vc).
EndpointsAt(data, vr, vc) ==
    (IF vr > 0 /\ vc > 0 /\ data[vr - 1][vc - 1] = Backward THEN 1 ELSE 0)
  + (IF vr > 0 /\ vc < 7 /\ data[vr - 1][vc] = Forward THEN 1 ELSE 0)
  + (IF vr < 7 /\ vc > 0 /\ data[vr][vc - 1] = Forward THEN 1 ELSE 0)
  + (IF vr < 7 /\ vc < 7 /\ data[vr][vc] = Backward THEN 1 ELSE 0)

\* C27 as stated: in every state of the search no vertex is the end of more
\* than two placed segments.
C27_AsStated ==
    \A vr \in Line, vc \in Line : EndpointsAt(gen.grid, vr, vc) <= 2

\* C28 as stated: exactly four opening configurations are passed over, all
\* others are placed, and no opening segment starts on a corner.
C28_AsStated ==
    /\ gen.moves # << >> =>
         gen.start \notin {<<0, 0>>, <<0, 7>>, <<7, 0>>, <<7, 7>>}
    /\ pc = "done" =>
         /\ Cardinality(output.skipped) = 4
         /\ output.opened = Trials - 4

\* C28, amended: exactly two opening configurations are passed over, Forward
\* in cell (6,0), whose start is (7,0), and Backward in cell (0,0), whose
\* start is (0,0); the other 96 are placed; no opening segment that is placed
\* starts on a corner.
C28_TwoOpeningsSkipped ==
    /\ output.skipped \subseteq {<<6, 0, Forward>>, <<0, 0, Backward>>}
    /\ gen.moves # << >> =>
         gen.start \notin {<<0, 0>>, <<0, 7>>, <<7, 0>>, <<7, 7>>}
    /\ pc \in {"run", "done"} =>
         output.opened + Cardinality(output.skipped) =
             trial + (IF frames = << >> THEN 0 ELSE 1)
    /\ pc = "done" =>
         /\ output.skipped = {<<6, 0, Forward>>, <<0, 0, Backward>>}
         /\ output.opened = Trials - 2

C28_Witness ==
    /\ pc = "done"
    /\ Cardinality(output.skipped) = 2
    /\ output.opened = 96

\* The place of a cell in the row-major scan of the first-placement loops.
RowMajor(rc) == rc[1] * GridSize + rc[2]

\* C29: every cell whose two orientations the first-placement loops have
\* been through is flagged as placed and Empty in every later state, and
\* every cell of the move log comes no earlier in the row-major scan than
\* the cell of the first move.
C29_StartCellsStayPlaced ==
    /\ \A r \in Idx, c \in Idx :
         RowMajor(<<r, c>>) < trial \div 2 =>
             gen.placed[r][c] /\ gen.grid[r][c] = Empty
    /\ \A i \in 1 .. Len(gen.moves) :
         RowMajor(gen.moves[i][1]) >= RowMajor(gen.moves[1][1])

\* The curve has grown next to cells that were start cells before.
C29_Witness ==
    /\ trial \div 2 >= GridSize + 1
    /\ Len(gen.moves) >= 4
    /\ \E i \in 1 .. Len(gen.moves) : gen.moves[i][1][1] = trial_r(trial) + 1
    /\ Len(candidates(gen)) < 3

\* C30: a candidate that leads back to start and passes the
\* self-intersection check has exactly one non-empty cell around start, and
\* the placed count with it placed is even; neither assertion fails, and
\* loop_area is taken of a grid whose curve has head = start and an even
\* number of segments.
C30_ClosureAsserts ==
    /\ pc # "panic: closure"
    /\ (Checking /\ intersections(gen, mv0[4], mv0[5]) < 2 /\ closes(gen, mv0)) =>
         /\ intersections(gen, mv0[4], mv0[5]) = 1
         /\ closure_placed(gen, mv0).placed_cnt % 2 = 0
         /\ closure_placed(gen, mv0).head = gen.start
         /\ Segments(closure_placed(gen, mv0).grid) % 2 = 0

\* The closure test of a loop of six segments.
C30_Witness ==
    /\ Checking
    /\ intersections(gen, mv0[4], mv0[5]) < 2
    /\ closes(gen, mv0)
    /\ gen.placed_cnt = 5

(***************************************************************************)
(* The geometry of the curve the search draws.                             *)
(***************************************************************************)

\* The two vertices a segment joins: Forward in (r, c) joins (r+1, c) and
\* (r, c+1), Backward joins (r, c) and (r+1, c+1).
SegmentEnds(cell, rc) ==
    IF cell = Forward
    THEN { <<rc[1] + 1, rc[2]>>, <<rc[1], rc[2] + 1>> }
    ELSE { <<rc[1], rc[2]>>, <<rc[1] + 1, rc[2] + 1>> }

\* The head before move i of the log (the start vertex for the opening
\* segment, which is logged with the head it leads to) and the head after it.
HeadBefore(g, i) == IF i = 1 THEN g.start ELSE g.moves[i][2]

HeadAfter(g, i) == IF i = Len(g.moves) THEN g.head ELSE g.moves[i + 1][2]

\* C31: every segment of the move log is a diagonal of its cell that joins
\* the head before its placement (the start vertex for the opening segment)
\* and the head after it, Backward when it leads to the top-left or the
\* bottom-right and Forward otherwise; heads are in 0..7 and cells in 0..6.
C31_SegmentsJoinHeads ==
    /\ gen.head \in Line \X Line
    /\ \A i \in 1 .. Len(gen.moves) :
         LET rc == gen.moves[i][1]
             a == HeadBefore(gen, i)
             b == HeadAfter(gen, i)
         IN  /\ rc \in Idx \X Idx
             /\ a \in Line \X Line
             /\ b \in Line \X Line
             /\ gen.grid[rc[1]][rc[2]] # Empty
             /\ SegmentEnds(gen.grid[rc[1]][rc[2]], rc) = {a, b}
             /\ a # b
             /\ gen.grid[rc[1]][rc[2]] = Backward <=> (b[1] - a[1] = b[2] - a[2])

\* The last segment placed leads to the top-left, the one before it does not.
C31_Witness ==
    /\ Len(gen.moves) >= 4
    /\ HeadAfter(gen, Len(gen.moves))[1] < HeadBefore(gen, Len(gen.moves))[1]
    /\ HeadAfter(gen, Len(gen.moves))[2] < HeadBefore(gen, Len(gen.moves))[2]
    /\ gen.grid[gen.moves[Len(gen.moves) - 1][1][1]][gen.moves[Len(gen.moves) - 1][1][2]] = Forward


\* C32: inner_cells is the number of non-empty cells with 1 <= row <= 5 and
\* 1 <= col <= 5, in every state, and is never below 0.
C32_InnerCellsCounted ==
    /\ gen.inner_cells = InnerSegments(gen.grid)
    /\ gen.inner_cells >= 0

\* Segments on the rim and inside, after inner segments have been unplaced.
C32_Witness ==
    /\ gen.inner_cells >= 2
    /\ gen.placed_cnt >= gen.inner_cells + 2
    /\ Len(gen.valid_grids) > 0


\* C33 as stated (the part about the depth): the number of segments placed
\* at the same time never exceeds max_length and never exceeds 49, the
\* closing segment of a closure test included.
C33_AsStated ==
    /\ gen.placed_cnt <= gen.max_length
    /\ gen.placed_cnt <= GridCells
    /\ (Checking /\ intersections(gen, mv0[4], mv0[5]) < 2 /\ closes(gen, mv0)) =>
         closure_placed(gen, mv0).placed_cnt <= gen.max_length


\* C34: no call of generate meets a fatal condition: every cell handed to
\* place has its flag clear, every unplace finds a move whose cell has its
\* flag set, the last placed cell is never Empty, and at a closure
\* central_binom is given placed_cnt / 2 <= 24, inside its table.
C34_NoFatalCondition ==
    /\ pc \in {"run", "done"}
    /\ (AtTop /\ ~IsCorner(first_start(trial_r(trial), trial_c(trial), trial_cell(trial)))) =>
         place_ok(gen, trial_r(trial), trial_c(trial))
    /\ (Checking /\ intersections(gen, mv0[4], mv0[5]) < 2 /\ closes(gen, mv0)) =>
         /\ place_ok(gen, mv0[1], mv0[2])
         /\ unplace_ok(closure_placed(gen, mv0))
         /\ closure_placed(gen, mv0).placed_cnt \div 2 <= 24
         /\ central_binom_defined(closure_placed(gen, mv0).placed_cnt \div 2)
    /\ (Extending /\ ~too_long(gen)) => place_ok(gen, mv0[1], mv0[2])
    /\ (InCall /\ cur.moves = << >>) => unplace_ok(gen)
    /\ gen.moves # << >> => last_cell_ok(gen)

\* An extension is about to be placed on a curve of five segments, next to
\* cells that are flagged.
C34_Witness ==
    /\ Extending
    /\ ~too_long(gen)
    /\ gen.placed_cnt >= 5
    /\ Len(cur.moves) < 3
    /\ trial >= 2 * GridSize


(***************************************************************************)
(* place and unplace called in any order and with any arguments: `gen` is  *)
(* the Generator, `output` keeps the Generator as it was before the call.  *)
(***************************************************************************)

\* The calls are made on the cells of rows and columns 0..MaxOpCell, and
\* are followed until MaxOps segments are placed.
MaxOpCell == 1
MaxOps == 2

\* Mutant: place asserts on the flag after it has written.
place_call_assert_last(g, row, col, c, headr, headc) ==
    [gen |-> place(g, row, col, c, headr, headc), ok |-> place_ok(g, row, col)]

\* A call of place: the assertion on the flag comes before every write.
place_call(g, row, col, c, headr, headc) ==
    IF place_ok(g, row, col)
    THEN [gen |-> place(g, row, col, c, headr, headc), ok |-> TRUE]
    ELSE [gen |-> g, ok |-> FALSE]

\* A call of unplace: the expect on the pop comes first, and the assertion
\* on the flag after the pop and before the other writes.
unplace_call(g) ==
    IF Len(g.moves) = 0
    THEN [gen |-> g, ok |-> FALSE]
    ELSE IF unplace_ok(g)
         THEN [gen |-> unplace(g), ok |-> TRUE]
         ELSE [gen |-> [g EXCEPT !.moves = SubSeq(@, 1, Len(@) - 1)], ok |-> FALSE]

InitOps ==
    /\ gen = new(Area(2, 0), GridCells, GridCells)
    /\ frames = << >>
    /\ trial = 0
    /\ pc = "ops"
    /\ input = None
    /\ output = [before |-> new(Area(2, 0), GridCells, GridCells)]
    /\ slow = SlowIdle

CallPlace ==
    /\ pc = "ops"
    /\ \E row \in 0 .. MaxOpCell, col \in 0 .. MaxOpCell, c \in {Forward, Backward},
          e \in {1, 2} :
       LET far == IF c = Forward
                  THEN << <<row + 1, col>>, <<row, col + 1>> >>
                  ELSE << <<row, col>>, <<row + 1, col + 1>> >>
           headr == far[e][1]
           headc == far[e][2] IN
         /\ place_ok(gen, row, col) => gen.placed_cnt < MaxOps
         /\ gen' = place_call(gen, row, col, c, headr, headc).gen
         /\ pc' = IF place_call(gen, row, col, c, headr, headc).ok
                  THEN "ops" ELSE "panic: place"
    /\ output' = [before |-> gen]
    /\ UNCHANGED <<frames, trial, input, slow>>

CallUnplace ==
    /\ pc = "ops"
    /\ gen' = unplace_call(gen).gen
    /\ pc' = IF unplace_call(gen).ok THEN "ops" ELSE "panic: unplace"
    /\ output' = [before |-> gen]
    /\ UNCHANGED <<frames, trial, input, slow>>

NextOps == CallPlace \/ CallUnplace

SpecOps == InitOps /\ [][NextOps]_vars

\* C35: a place that fails on a flagged cell has written nothing (grid,
\* placed, placed_cnt, moves, head and inner_cells are as before the call),
\* and an unplace that fails on an empty move log has changed nothing.
C35_FailedCallsWriteNothing ==
    /\ pc = "panic: place" => gen = output.before
    /\ (pc = "panic: unplace" /\ output.before.moves = << >>) => gen = output.before
    /\ pc = "panic: unplace" => output.before.moves = << >>

\* place has failed on a Generator with two segments placed.
C35_Witness ==
    /\ pc = "panic: place"
    /\ gen.placed_cnt = 2
    /\ gen.head # <<0, 0>>


(***************************************************************************)
(* Further properties of loop_area.                                        *)
(***************************************************************************)

\* C36: on every grid, whether it holds a closed loop, an open path, several
\* strands or nothing, the counters n, k and j of loop_area sum to 49, and
\* loop_area returns Ok, never LoopNotClosed.
C36_LoopAreaAlwaysOk ==
    pc = "area" =>
        /\ scan(input).n + scan(input).k + scan(input).j = 49
        /\ output.ok

\* loop_area has run on a grid whose only segment is an open path, with
\* Empty cells to its right counted as inside.
C36_Witness ==
    /\ pc = "area"
    /\ Segments(input) = 1
    /\ scan(input).j >= 1
    /\ output.ok


(***************************************************************************)
(* Parity of the curve.                                                    *)
(***************************************************************************)

SameParity(a, b) == (a - b) % 2 = 0

\* The cells around the vertex (vr, vc).
CellsAround(vr, vc) == ({vr - 1, vr} \cap Idx) \X ({vc - 1, vc} \cap Idx)

\* C37: while the move log is not empty, head.row + head.col has the parity
\* of start.row + start.col, head.row - start.row has the parity of
\* placed_cnt, a non-empty cell (r, c) is Backward exactly when r + c has the
\* parity of start.row + start.col (and Forward otherwise), and so every
\* non-empty cell around a vertex of the parity class of the start has an
\* endpoint at that vertex.
C37_Parity ==
    gen.moves # << >> =>
        LET s == gen.start[1] + gen.start[2] IN
        /\ SameParity(gen.head[1] + gen.head[2], s)
        /\ SameParity(gen.head[1] - gen.start[1], gen.placed_cnt)
        /\ \A rc \in Idx \X Idx :
               gen.grid[rc[1]][rc[2]] # Empty =>
                   (gen.grid[rc[1]][rc[2]] = Backward <=> SameParity(rc[1] + rc[2], s))
        /\ \A vr \in Line, vc \in Line :
               SameParity(vr + vc, s) =>
                   \A rc \in CellsAround(vr, vc) :
                       gen.grid[rc[1]][rc[2]] # Empty =>
                           <<vr, vc>> \in SegmentEnds(gen.grid[rc[1]][rc[2]], rc)

\* A curve of five segments with both orientations, begun on a Forward
\* cell, with the head above the start.
C37_Witness ==
    /\ Len(gen.moves) = 5
    /\ gen.placed_cnt = 5
    /\ gen.grid[gen.moves[1][1][1]][gen.moves[1][1][2]] = Forward
    /\ gen.head[1] < gen.start[1]
    /\ \E rc \in Idx \X Idx : gen.grid[rc[1]][rc[2]] = Backward


\* C38: every closure that the search reaches has an even number of
\* segments, so the simplified loop_area of its grid has half = 0; hence a
\* search whose simplified target has half = 1 harvests nothing: valid_cnt
\* stays 0 and valid_grids stays empty, up to and including the returned
\* pair.
C38_HalfTargetsFindNothing ==
    /\ (Checking /\ intersections(gen, mv0[4], mv0[5]) < 2 /\ closes(gen, mv0)) =>
           /\ closure_placed(gen, mv0).placed_cnt % 2 = 0
           /\ Segments(closure_placed(gen, mv0).grid) % 2 = 0
           /\ closure_area(gen, mv0).half = 0
    /\ gen.target.half = 1 => (gen.valid_cnt = 0 /\ gen.valid_grids = << >>)

\* A closure of area 2 is tested in the search for the target 2 1/2.
C38_Witness ==
    /\ Checking
    /\ intersections(gen, mv0[4], mv0[5]) < 2
    /\ closes(gen, mv0)
    /\ gen.target = Area(2, 1)
    /\ closure_area(gen, mv0) = Area(2, 0)


(***************************************************************************)
(* The shape of the harvested grids.                                       *)
(***************************************************************************)

\* The segments of a grid, each as the set of its two endpoints.
SegmentsOf(data) ==
    { SegmentEnds(data[rc[1]][rc[2]], rc) :
          rc \in { x \in Idx \X Idx : data[x[1]][x[2]] # Empty } }

\* The vertices joined to those of S by at most k segments of E.
RECURSIVE Joined(_, _, _)
Joined(E, S, k) ==
    IF k = 0
    THEN S
    ELSE Joined(E, S \cup UNION { e \in E : e \cap S # {} }, k - 1)

CornerVertices == { <<0, 0>>, <<0, GridSize>>, <<GridSize, 0>>, <<GridSize, GridSize>> }

\* One simple closed cycle through the vertex v, away from the corners.
SimpleCycle(data, v) ==
    /\ SegmentsOf(data) # {}
    /\ \A vr \in Line, vc \in Line : EndpointsAt(data, vr, vc) \in {0, 2}
    /\ EndpointsAt(data, v[1], v[2]) = 2
    /\ UNION SegmentsOf(data) \subseteq Joined(SegmentsOf(data), {v}, Cardinality(SegmentsOf(data)))
    /\ \A e \in SegmentsOf(data) : e \cap CornerVertices = {}

\* C39: every grid pushed to valid_grids is one simple closed cycle: every
\* vertex is the endpoint of no segment or of exactly two, the segments are
\* all joined to the start vertex, and none of them touches a corner vertex
\* of the grid.
C39_HarvestedGridsAreSimpleCycles ==
    [][Len(gen'.valid_grids) # Len(gen.valid_grids) =>
           /\ Len(gen'.valid_grids) = Len(gen.valid_grids) + 1
           /\ SubSeq(gen'.valid_grids, 1, Len(gen.valid_grids)) = gen.valid_grids
           /\ SimpleCycle(gen'.valid_grids[Len(gen'.valid_grids)], gen.start)]_vars

\* A loop of six segments has been pushed.
C39_Witness ==
    /\ Len(gen.valid_grids) > 0
    /\ Segments(gen.valid_grids[Len(gen.valid_grids)]) = 6
    /\ gen.valid_cnt > 0


(***************************************************************************)
(* move_from_idx against coord_neighbours.                                 *)
(***************************************************************************)

\* The positions that move_from_idx reaches from a hexagon.
MovesFrom(coords) == { move_from_idx(coords, idx) : idx \in 0 .. 2 }

\* C40 as stated: for the hexagon whose neighbours were computed, the
\* positions reached by move_from_idx with the indices 0, 1 and 2 are the
\* set that coord_neighbours returned, and the index i of move_from_idx
\* selects the element i of that list.
C40_AsStated ==
    pc \in {"coord_neighbours", "self.neighbours"} =>
        /\ MovesFrom(output.of) = { output.neighbours[j] : j \in 1 .. 3 }
        /\ \A idx \in 0 .. 2 :
               move_from_idx(output.of, idx) = output.neighbours[idx + 1]

====
